---- MODULE Spec2Model ----
(***************************************************************************)
(* The MDX auto-fix preprocessor (plugins/mdx-auto-fix/preprocessor.ts).   *)
(* A text is a sequence of characters, each a one-character string; the    *)
(* backquote, which a TLA+ string cannot hold, is the character Tick.      *)
(* Every regular                                                            *)
(* expression of the rule table is modelled by the length of its match at  *)
(* a position (0: no match there) and String.prototype.replace with a /g   *)
(* pattern by a left-to-right scan that resumes after each match.          *)
(***************************************************************************)
EXTENDS Integers, Sequences, FiniteSets

VARIABLES markdown, options, pc, result, stats, parts, partIdx, ruleIdx,
          transformed, pieces, onStatsCalls, regexLastIndex, returned,
          tree, treeGiven, transformerIdx, consoleErrors,
          internalValue, savedValue, isDirty, initialValue, filePath,
          prevInitialValueRef, prevFilePathRef, dirtyDeps, pendingSaves

\* the variables of the remark plugin mdxAutoFix (plugin.ts), besides options,
\* pc, stats and onStatsCalls, which it has as preprocessMDX has them
pluginVars == <<tree, treeGiven, transformerIdx>>

\* the variables of the component ThemedMDXEditor (ThemedMDXEditor.tsx)
editorVars == <<internalValue, savedValue, isDirty, initialValue, filePath,
                prevInitialValueRef, prevFilePathRef, dirtyDeps, pendingSaves>>

vars == <<markdown, options, pc, result, stats, parts, partIdx, ruleIdx,
          transformed, pieces, onStatsCalls, regexLastIndex, returned,
          pluginVars, consoleErrors, editorVars>>

(***************************** characters *********************************)

\* the backquote character
Tick == "BACKTICK"

Digits == {"0", "1", "2", "3", "4", "5", "6", "7", "8", "9"}

UpperCase ==
    <<"A","B","C","D","E","F","G","H","I","J","K","L","M","N","O","P","Q","R","S","T","U","V","W","X","Y","Z">>

LowerCase ==
    <<"a","b","c","d","e","f","g","h","i","j","k","l","m","n","o","p","q","r","s","t","u","v","w","x","y","z">>

Letters == {UpperCase[k] : k \in DOMAIN UpperCase} \cup {LowerCase[k] : k \in DOMAIN LowerCase}

\* \d
IsDigit(c) == c \in Digits

\* \w
IsWordChar(c) == c \in Letters \cup Digits \cup {"_"}

\* \s (the members of the class that a TLA+ string can hold)
IsWhitespace(c) == c \in {" ", "\t", "\n", "\r", "\f"}

\* the line terminators after which ^ matches under the m flag
IsLineTerminator(c) == c \in {"\n", "\r"}

\* String.prototype.toLowerCase, one character
ToLowerChar(c) ==
    IF \E k \in DOMAIN UpperCase : UpperCase[k] = c
    THEN LowerCase[CHOOSE k \in DOMAIN UpperCase : UpperCase[k] = c]
    ELSE c

toLowerCase(s) == [k \in DOMAIN s |-> ToLowerChar(s[k])]

\* the least member of a set of numbers, or else when the set is empty
Least(S, else) == IF S = {} THEN else ELSE CHOOSE j \in S : \A k \in S : j <= k

\* String.prototype.trim
trim(s) ==
    LET black == {j \in DOMAIN s : ~IsWhitespace(s[j])}
    IN  IF black = {} THEN <<>>
        ELSE SubSeq(s, Least(black, 0), CHOOSE j \in black : \A k \in black : k <= j)

\* \s* from position i on: the number of whitespace characters that stand there
WhitespaceRun(s, i) ==
    Least({j \in i..Len(s) : ~IsWhitespace(s[j])}, Len(s) + 1) - i

\* \d* from position i on
DigitRun(s, i) ==
    Least({j \in i..Len(s) : ~IsDigit(s[j])}, Len(s) + 1) - i

\* [^>\s]* from position i on
TagContentRun(s, i) ==
    Least({j \in i..Len(s) : s[j] = ">" \/ IsWhitespace(s[j])}, Len(s) + 1) - i

\* [^\n'backquote']* from position i on
NoTickNoBreakRun(s, i) ==
    Least({j \in i..Len(s) : s[j] = "\n" \/ s[j] = Tick}, Len(s) + 1) - i

\* whether s holds three backquotes at position i
FenceAt(s, i) ==
    i + 2 <= Len(s) /\ s[i] = Tick /\ s[i + 1] = Tick /\ s[i + 2] = Tick

(******************************* the rules ********************************)

LangRule == "normalize-code-block-language"

\* a variant of the rule table with the two tag rules before less-than-digit
TagRulesFirst ==
    << "normalize-code-block-language", "invalid-tag-opening", "numeric-only-tag",
       "less-than-digit", "less-than-space-digit", "greater-than-digit" >>

defaultPreprocessRules ==
    << "normalize-code-block-language", "less-than-digit", "less-than-space-digit",
       "greater-than-digit", "invalid-tag-opening", "numeric-only-tag" >>

knownLanguages == {
    <<"j","a","v","a","s","c","r","i","p","t">>, <<"j","s">>,
    <<"t","y","p","e","s","c","r","i","p","t">>, <<"t","s">>, <<"j","s","x">>, <<"t","s","x">>,
    <<"p","y","t","h","o","n">>, <<"p","y">>, <<"j","a","v","a">>, <<"c">>, <<"c","p","p">>,
    <<"c","s","h","a","r","p">>, <<"c","s">>, <<"h","t","m","l">>, <<"c","s","s">>,
    <<"s","c","s","s">>, <<"s","a","s","s">>, <<"l","e","s","s">>, <<"j","s","o","n">>,
    <<"y","a","m","l">>, <<"y","m","l">>, <<"x","m","l">>, <<"t","o","m","l">>,
    <<"b","a","s","h">>, <<"s","h">>, <<"s","h","e","l","l">>,
    <<"p","o","w","e","r","s","h","e","l","l">>, <<"s","q","l">>,
    <<"g","r","a","p","h","q","l">>, <<"m","a","r","k","d","o","w","n">>, <<"m","d">>,
    <<"r","u","s","t">>, <<"g","o">>, <<"r","u","b","y">>, <<"p","h","p">>,
    <<"s","w","i","f","t">>, <<"k","o","t","l","i","n">>, <<"d","a","r","t">>, <<"r">>,
    <<"m","a","t","l","a","b">>, <<"d","i","f","f">>, <<"t","e","x","t">>,
    <<"p","l","a","i","n","t","e","x","t">> }

Fence == <<Tick, Tick, Tick>>

EntityLt == <<"&", "l", "t", ";">>

EntityGt == <<"&", "g", "t", ";">>

NoMatch == [len |-> 0, indent |-> <<>>, lang |-> <<>>]

\* /^(\s*)'''([^\n']*?)\n/gim (' for a backquote) at position i: the match's length and its two groups
FencePattern(s, i) ==
    LET w == WhitespaceRun(s, i)
        f == i + w
        t == NoTickNoBreakRun(s, f + 3)
        e == f + 3 + t
    IN  IF /\ (i = 1 \/ IsLineTerminator(s[i - 1]))
           /\ FenceAt(s, f)
           /\ e <= Len(s)
           /\ s[e] = "\n"
        THEN [len |-> e - i + 1, indent |-> SubSeq(s, i, f - 1),
              lang |-> SubSeq(s, f + 3, e - 1)]
        ELSE NoMatch

\* a variant of the replacement function that forces every tag that is not a
\* known language to 'text'
ForceUnknownToText(match, indent, lang) ==
    IF toLowerCase(trim(lang)) \in knownLanguages THEN match
    ELSE indent \o Fence \o <<"t","e","x","t","\n">>

\* the replacement function of normalize-code-block-language
NormalizeLanguageReplacement(match, indent, lang) ==
    LET trimmedLang == trim(lang)
        langLower == toLowerCase(trimmedLang)
    IN  IF langLower \in knownLanguages THEN match
        ELSE IF trimmedLang = <<>>
             THEN indent \o Fence \o <<"m","a","r","k","d","o","w","n">> \o <<"\n">>
        ELSE IF langLower = <<"n","/","a">>
             THEN indent \o Fence \o <<"m","a","r","k","d","o","w","n">> \o <<"\n">>
        ELSE IF langLower = <<"a","r","g","d","o","w","n">>
             THEN indent \o Fence \o <<"m","a","r","k","d","o","w","n">> \o <<"\n">>
        ELSE match

\* a variant of less-than-digit whose lookahead accepts any word character: /<(?=\w)/g
LessThanWordPattern(s, i) ==
    IF s[i] = "<" /\ i + 1 <= Len(s) /\ IsWordChar(s[i + 1]) THEN 1 ELSE 0

\* /<(?=\d)/g
LessThanDigitPattern(s, i) ==
    IF s[i] = "<" /\ i + 1 <= Len(s) /\ IsDigit(s[i + 1]) THEN 1 ELSE 0

\* a variant of less-than-space-digit that accepts one whitespace character only: /<(\s)(?=\d)/g
LessThanOneSpaceDigitPattern(s, i) ==
    IF s[i] = "<" /\ i + 2 <= Len(s) /\ IsWhitespace(s[i + 1]) /\ IsDigit(s[i + 2])
    THEN 2 ELSE 0

\* /<(\s+)(?=\d)/g
LessThanSpaceDigitPattern(s, i) ==
    LET w == WhitespaceRun(s, i + 1)
    IN  IF s[i] = "<" /\ w >= 1 /\ i + 1 + w <= Len(s) /\ IsDigit(s[i + 1 + w])
        THEN 1 + w ELSE 0

\* a variant of greater-than-digit without the lookbehind: />(?=\s?\d)/g
GreaterThanDigitUnguardedPattern(s, i) ==
    IF /\ s[i] = ">"
       /\ \/ (i + 1 <= Len(s) /\ IsDigit(s[i + 1]))
          \/ (i + 2 <= Len(s) /\ IsWhitespace(s[i + 1]) /\ IsDigit(s[i + 2]))
    THEN 1 ELSE 0

\* /(?<![-\w])>(?=\s?\d)/g
GreaterThanDigitPattern(s, i) ==
    IF /\ s[i] = ">"
       /\ (i = 1 \/ ~(s[i - 1] = "-" \/ IsWordChar(s[i - 1])))
       /\ \/ (i + 1 <= Len(s) /\ IsDigit(s[i + 1]))
          \/ (i + 2 <= Len(s) /\ IsWhitespace(s[i + 1]) /\ IsDigit(s[i + 2]))
    THEN 1 ELSE 0

\* /<(\/?(?:\d[^>\s]*))/g
InvalidTagOpeningPattern(s, i) ==
    LET d == IF i + 1 <= Len(s) /\ s[i + 1] = "/" THEN i + 2 ELSE i + 1
    IN  IF s[i] = "<" /\ d <= Len(s) /\ IsDigit(s[d])
        THEN (d - i) + 1 + TagContentRun(s, d + 1) ELSE 0

\* /<(\d+)>/g
NumericOnlyTagPattern(s, i) ==
    LET n == DigitRun(s, i + 1)
    IN  IF s[i] = "<" /\ n >= 1 /\ i + 1 + n <= Len(s) /\ s[i + 1 + n] = ">"
        THEN n + 2 ELSE 0

\* a custom rule { name: 'custom-throws', pattern: /-/g } whose replacement
\* function throws
ThrowingRule == "custom-throws"

\* a custom rule that shares the name of a default rule:
\* { name: 'less-than-digit', pattern: /(?<![-\w])>(?=\s?\d)/g, replacement: '&gt;' }
RepeatRule == "custom-repeat"

\* the rule objects: those of the default list and the custom ones
AllRules ==
    {defaultPreprocessRules[k] : k \in DOMAIN defaultPreprocessRules}
        \cup {ThrowingRule, RepeatRule}

\* rule.name
RuleName(rule) == IF rule = RepeatRule THEN "less-than-digit" ELSE rule

\* the call of rule.replacement throws
Throws(rule) == rule = ThrowingRule

\* rule.pattern of a prose rule: the length of its match at position i of s
RulePattern(name, s, i) ==
    CASE name = "less-than-digit" -> LessThanDigitPattern(s, i)
      [] name = "less-than-space-digit" -> LessThanSpaceDigitPattern(s, i)
      [] name = "greater-than-digit" -> GreaterThanDigitPattern(s, i)
      [] name = "invalid-tag-opening" -> InvalidTagOpeningPattern(s, i)
      [] name = "numeric-only-tag" -> NumericOnlyTagPattern(s, i)
      [] name = LangRule -> FencePattern(s, i).len
      [] name = ThrowingRule -> IF s[i] = "-" THEN 1 ELSE 0
      [] name = RepeatRule -> GreaterThanDigitPattern(s, i)
      [] OTHER -> 0

\* rule.replacement of a prose rule, for the matched text m
RuleReplacement(name, m) ==
    CASE name = "less-than-digit" -> EntityLt
      [] name = "less-than-space-digit" -> EntityLt \o SubSeq(m, 2, Len(m))
      [] name = "greater-than-digit" -> EntityGt
      [] name = "invalid-tag-opening" -> EntityLt \o SubSeq(m, 2, Len(m))
      [] name = "numeric-only-tag" -> EntityLt \o SubSeq(m, 2, Len(m) - 1) \o <<">">>
      [] name = RepeatRule -> EntityGt
      [] OTHER -> m

(************************ the language-tag pass ***************************)

\* result.replace(codeBlockLangRule.pattern, (...args) => ...) from position i on,
\* with the insideCodeBlock flag as it stands there: the new text and fixCount
RECURSIVE NormalizeFrom(_, _, _)
NormalizeFrom(s, i, insideCodeBlock) ==
    LET at == Least({j \in i..Len(s) : FencePattern(s, j).len > 0}, 0)
    IN  IF at = 0 THEN [text |-> SubSeq(s, i, Len(s)), fixCount |-> 0]
        ELSE LET m == FencePattern(s, at)
                 originalMatch == SubSeq(s, at, at + m.len - 1)
                 replacement ==
                     IF insideCodeBlock THEN originalMatch
                     ELSE NormalizeLanguageReplacement(originalMatch, m.indent, m.lang)
                 r == NormalizeFrom(s, at + m.len, ~insideCodeBlock)
             IN  [text |-> SubSeq(s, i, at - 1) \o replacement \o r.text,
                  fixCount |-> r.fixCount +
                      (IF ~insideCodeBlock /\ replacement # originalMatch THEN 1 ELSE 0)]

\* the whole pass: insideCodeBlock starts false
NormalizeCodeBlockLanguage(s) == NormalizeFrom(s, 1, FALSE)

(*************************** the prose rules ******************************)

\* transformed.replace(rule.pattern, ...) from position i on: the new text and fixCount
RECURSIVE ReplaceFrom(_, _, _)
ReplaceFrom(name, s, i) ==
    LET at == Least({j \in i..Len(s) : RulePattern(name, s, j) > 0}, 0)
    IN  IF at = 0 THEN [text |-> SubSeq(s, i, Len(s)), fixCount |-> 0]
        ELSE LET n == RulePattern(name, s, at)
                 r == ReplaceFrom(name, s, at + n)
             IN  [text |-> SubSeq(s, i, at - 1)
                           \o RuleReplacement(name, SubSeq(s, at, at + n - 1)) \o r.text,
                  fixCount |-> r.fixCount + 1]

\* one turn of the loop 'for (const rule of otherRules)' on a text
ReplaceAll(name, s) == ReplaceFrom(name, s, 1)

\* a variant of the statistics update that overwrites the entry of the rule
OverwriteFixes(st, name, fixCount) ==
    LET by == st.byTransformer
    IN  [totalFixes |-> st.totalFixes + fixCount,
         byTransformer |->
             [n \in DOMAIN by \cup {name} |-> IF n = name THEN fixCount ELSE by[n]]]

\* stats.byTransformer[name] = (stats.byTransformer[name] || 0) + fixCount; totalFixes += fixCount
AddFixes(st, name, fixCount) ==
    LET by == st.byTransformer
    IN  [totalFixes |-> st.totalFixes + fixCount,
         byTransformer |->
             [n \in DOMAIN by \cup {name} |->
                 IF n = name THEN (IF n \in DOMAIN by THEN by[n] ELSE 0) + fixCount
                 ELSE by[n]]]

\* stats.byTransformer[name] = fixCount; totalFixes += fixCount
SetFixes(st, name, fixCount) ==
    LET by == st.byTransformer
    IN  [totalFixes |-> st.totalFixes + fixCount,
         byTransformer |->
             [n \in DOMAIN by \cup {name} |-> IF n = name THEN fixCount ELSE by[n]]]

\* the replacement function of the rule is called on s, and throws
ThrowsOn(rule, s) == Throws(rule) /\ \E j \in DOMAIN s : RulePattern(rule, s, j) > 0

\* the transform closure on one text, the rules from the k-th on in order: the
\* new text and the fixes made, or threw when a replacement function throws
RECURSIVE TransformFrom(_, _, _)
TransformFrom(rules, k, s) ==
    IF k > Len(rules) THEN [text |-> s, fixCount |-> 0, threw |-> FALSE]
    ELSE IF ThrowsOn(rules[k], s) THEN [text |-> s, fixCount |-> 0, threw |-> TRUE]
    ELSE LET r == ReplaceAll(rules[k], s)
             rest == TransformFrom(rules, k + 1, r.text)
         IN  [text |-> rest.text, fixCount |-> r.fixCount + rest.fixCount,
              threw |-> rest.threw]

(***************************** preserveCode *******************************)

\* the first position >= j where a fence stands, 0 if none
NextFence(s, j) == Least({k \in j..Len(s) : FenceAt(s, k)}, 0)

\* a variant of codeRegex that lets a fence without a closing fence match
\* through the end of the text
CodeRegexToEnd(s, i) ==
    LET close == IF FenceAt(s, i) THEN NextFence(s, i + 3) ELSE 0
        run == NoTickNoBreakRun(s, i + 1)
    IN  IF close > 0 THEN close + 3 - i
        ELSE IF FenceAt(s, i) THEN Len(s) + 1 - i
        ELSE IF s[i] = Tick /\ run >= 1 /\ i + 1 + run <= Len(s) /\ s[i + 1 + run] = Tick
             THEN run + 2
        ELSE 0

\* codeRegex at position i: the length of its match, 0 if none.  The first
\* alternative is a fence, lazily anything, a fence; the second a backquote,
\* one or more characters that are neither backquote nor line break, a backquote.
CodeRegex(s, i) ==
    LET close == IF FenceAt(s, i) THEN NextFence(s, i + 3) ELSE 0
        run == NoTickNoBreakRun(s, i + 1)
    IN  IF close > 0 THEN close + 3 - i
        ELSE IF s[i] = Tick /\ run >= 1 /\ i + 1 + run <= Len(s) /\ s[i + 1 + run] = Tick
             THEN run + 2
        ELSE 0

TextPart(s) == [type |-> "text", content |-> s]

CodePart(s) == [type |-> "code", content |-> s]

\* the while loop over codeRegex.exec from position i on, and the remaining text
RECURSIVE PartsFrom(_, _)
PartsFrom(s, lastIndex) ==
    LET at == Least({j \in lastIndex..Len(s) : CodeRegex(s, j) > 0}, 0)
    IN  IF at = 0
        THEN IF lastIndex <= Len(s) THEN <<TextPart(SubSeq(s, lastIndex, Len(s)))>> ELSE <<>>
        ELSE LET n == CodeRegex(s, at)
             IN  (IF at > lastIndex THEN <<TextPart(SubSeq(s, lastIndex, at - 1))>> ELSE <<>>)
                 \o <<CodePart(SubSeq(s, at, at + n - 1))>>
                 \o PartsFrom(s, at + n)

\* a variant of the parts array that leaves out the text parts
CodePartsOnly(s) == SelectSeq(PartsFrom(s, 1), LAMBDA part : part.type = "code")

\* the parts array of preserveCode
CodeParts(s) == PartsFrom(s, 1)

\* Array.prototype.join('')
RECURSIVE join(_)
join(ps) == IF ps = <<>> THEN <<>> ELSE Head(ps) \o join(Tail(ps))

(****************************** the call **********************************)

\* the options of a call that passes none but onStats; hasEnable and hasDisable
\* say whether the enable and disable lists are given, enable and disable hold
\* the names in them
DefaultOptions ==
    [rules |-> defaultPreprocessRules, hasEnable |-> FALSE, enable |-> {},
     hasDisable |-> FALSE, disable |-> {}, preserveCodeBlocks |-> TRUE, onStats |-> TRUE]

\* a variant of activeRules that does not look at disable
ActiveRulesEnableOnly(opts) ==
    IF opts.hasEnable /\ opts.enable # {}
    THEN SelectSeq(opts.rules, LAMBDA r : RuleName(r) \in opts.enable)
    ELSE opts.rules

\* activeRules: rules filtered by enable (when given and not empty), then by
\* disable (when given and not empty)
ActiveRules(opts) ==
    LET enabled == IF opts.hasEnable /\ opts.enable # {}
                   THEN SelectSeq(opts.rules, LAMBDA r : RuleName(r) \in opts.enable)
                   ELSE opts.rules
    IN  IF opts.hasDisable /\ opts.disable # {}
        THEN SelectSeq(enabled, LAMBDA r : RuleName(r) \notin opts.disable)
        ELSE enabled

\* activeRules.find(r => r.name === 'normalize-code-block-language') found one
HasCodeBlockLangRule(opts) ==
    \E k \in DOMAIN ActiveRules(opts) : RuleName(ActiveRules(opts)[k]) = LangRule

\* otherRules
OtherRules(opts) == SelectSeq(ActiveRules(opts), LAMBDA r : RuleName(r) # LangRule)

EmptyStats == [totalFixes |-> 0, byTransformer |-> <<>>]

\* the texts made of at most n fragments of F, each fragment a text
RECURSIVE TextsUpTo(_, _)
TextsUpTo(F, n) ==
    IF n = 0 THEN {<<>>}
    ELSE LET T == TextsUpTo(F, n - 1) IN T \cup {t \o f : t \in T, f \in F}

MaxProseFrags == 4

ProseFragments ==
    { <<"<">>, <<">">>, <<"<", "/", "5">>, <<"5">>, <<" ">>, <<"\n">>, <<"a">>, <<"-">>, <<"/">> }

\* the state on entry of preprocessMDX(text, options), stats created
Entry(text, opts) ==
    /\ markdown = text
    /\ options = opts
    /\ pc = "start"
    /\ result = text
    /\ stats = EmptyStats
    /\ parts = <<>>
    /\ partIdx = 1
    /\ ruleIdx = 1
    /\ transformed = <<>>
    /\ pieces = <<>>
    /\ onStatsCalls = <<>>

\* no tree is at hand: the plugin is not run
NoPlugin ==
    /\ tree = <<>>
    /\ treeGiven = <<>>
    /\ transformerIdx = 1

\* no editor is mounted
NoEditor ==
    /\ internalValue = <<>>
    /\ savedValue = <<>>
    /\ isDirty = FALSE
    /\ initialValue = <<>>
    /\ filePath = <<>>
    /\ prevInitialValueRef = <<>>
    /\ prevFilePathRef = <<>>
    /\ dirtyDeps = <<>>
    /\ pendingSaves = <<>>

\* the state on entry of the first call: the lastIndex of every rule's pattern
\* is 0 as the RegExp literal leaves it, and no call has ended yet
FirstEntry(text, opts) ==
    /\ Entry(text, opts)
    /\ regexLastIndex = [r \in AllRules |-> 0]
    /\ returned = <<>>
    /\ consoleErrors = <<>>
    /\ NoPlugin
    /\ NoEditor

Init == \E text \in TextsUpTo(ProseFragments, MaxProseFrags) : FirstEntry(text, DefaultOptions)

\* a variant of the language-tag pass that calls onStats as soon as it has
\* counted its own fixes
NormalizePassReports ==
    /\ pc = "start"
    /\ IF HasCodeBlockLangRule(options)
       THEN LET r == NormalizeCodeBlockLanguage(result)
                counted == IF r.fixCount > 0 THEN SetFixes(stats, LangRule, r.fixCount)
                           ELSE stats
            IN  /\ result' = r.text
                /\ stats' = counted
                /\ onStatsCalls' = IF options.onStats /\ counted.totalFixes > 0
                                   THEN Append(onStatsCalls, counted) ELSE onStatsCalls
       ELSE UNCHANGED <<result, stats, onStatsCalls>>
    /\ pc' = "normalized"
    /\ UNCHANGED <<markdown, options, parts, partIdx, ruleIdx, transformed, pieces>>
    /\ regexLastIndex' = IF HasCodeBlockLangRule(options)
                    THEN [regexLastIndex EXCEPT ![LangRule] = 0] ELSE regexLastIndex
    /\ UNCHANGED returned
    /\ UNCHANGED <<pluginVars, consoleErrors, editorVars>>

\* lines 186-243: the language-tag pass over the whole text
NormalizePass ==
    /\ pc = "start"
    /\ IF HasCodeBlockLangRule(options)
       THEN LET r == NormalizeCodeBlockLanguage(result)
            IN  /\ result' = r.text
                /\ stats' = IF r.fixCount > 0 THEN SetFixes(stats, LangRule, r.fixCount)
                            ELSE stats
       ELSE UNCHANGED <<result, stats>>
    /\ pc' = "normalized"
    /\ UNCHANGED <<markdown, options, parts, partIdx, ruleIdx, transformed, pieces,
                   onStatsCalls>>
    /\ regexLastIndex' = IF HasCodeBlockLangRule(options)
                    THEN [regexLastIndex EXCEPT ![LangRule] = 0] ELSE regexLastIndex
    /\ UNCHANGED returned
    /\ UNCHANGED <<pluginVars, consoleErrors, editorVars>>

\* a variant of the step that segments the text whatever preserveCodeBlocks is
SplitPartsAlways ==
    /\ pc = "normalized"
    /\ parts' = CodeParts(result)
    /\ partIdx' = 1
    /\ ruleIdx' = 1
    /\ transformed' = IF parts' # <<>> THEN parts'[1].content ELSE <<>>
    /\ pieces' = <<>>
    /\ pc' = "transform"
    /\ UNCHANGED <<markdown, options, result, stats, onStatsCalls>>
    /\ UNCHANGED <<regexLastIndex, returned>>
    /\ UNCHANGED <<pluginVars, consoleErrors, editorVars>>

\* a variant of the step that segments the text the call was given, not the
\* text the language-tag pass returned
SplitPartsOfInput ==
    /\ pc = "normalized"
    /\ parts' = IF options.preserveCodeBlocks THEN CodeParts(markdown)
                ELSE <<TextPart(markdown)>>
    /\ partIdx' = 1
    /\ ruleIdx' = 1
    /\ transformed' = IF parts' # <<>> THEN parts'[1].content ELSE <<>>
    /\ pieces' = <<>>
    /\ pc' = "transform"
    /\ UNCHANGED <<markdown, options, result, stats, onStatsCalls>>
    /\ UNCHANGED <<regexLastIndex, returned>>
    /\ UNCHANGED <<pluginVars, consoleErrors, editorVars>>

\* lines 279-281 and 104-135: the parts of the text, or the whole text as one
\* rewritable part when preserveCodeBlocks is false
SplitParts ==
    /\ pc = "normalized"
    /\ parts' = IF options.preserveCodeBlocks THEN CodeParts(result)
                ELSE <<TextPart(result)>>
    /\ partIdx' = 1
    /\ ruleIdx' = 1
    /\ transformed' = IF parts' # <<>> THEN parts'[1].content ELSE <<>>
    /\ pieces' = <<>>
    /\ pc' = "transform"
    /\ UNCHANGED <<markdown, options, result, stats, onStatsCalls>>
    /\ UNCHANGED <<regexLastIndex, returned>>
    /\ UNCHANGED <<pluginVars, consoleErrors, editorVars>>

\* a variant of the rule loop that takes the rules of otherRules from the last
\* to the first
ApplyRuleReversed ==
    /\ pc = "transform"
    /\ partIdx <= Len(parts)
    /\ parts[partIdx].type = "text"
    /\ ruleIdx <= Len(OtherRules(options))
    /\ LET rule == OtherRules(options)[Len(OtherRules(options)) + 1 - ruleIdx]
           r == ReplaceAll(rule, transformed)
       IN  IF ThrowsOn(rule, transformed)
           THEN /\ pc' = "thrown"
                /\ UNCHANGED <<transformed, stats, ruleIdx>>
           ELSE /\ transformed' = r.text
                /\ stats' = IF r.fixCount > 0
                            THEN AddFixes(stats, RuleName(rule), r.fixCount) ELSE stats
                /\ ruleIdx' = ruleIdx + 1
                /\ pc' = pc
    /\ UNCHANGED <<markdown, options, result, parts, partIdx, pieces, onStatsCalls>>
    /\ regexLastIndex' = [regexLastIndex EXCEPT
                        ![OtherRules(options)[Len(OtherRules(options)) + 1 - ruleIdx]] = 0]
    /\ UNCHANGED returned
    /\ UNCHANGED <<pluginVars, consoleErrors, editorVars>>

\* a variant of the rule loop whose replace starts to match at the pattern's
\* lastIndex and leaves it at its last match
ApplyRuleFromLastIndex ==
    /\ pc = "transform"
    /\ partIdx <= Len(parts)
    /\ parts[partIdx].type = "text"
    /\ ruleIdx <= Len(OtherRules(options))
    /\ LET rule == OtherRules(options)[ruleIdx]
           from == IF regexLastIndex[rule] <= Len(transformed) THEN regexLastIndex[rule] ELSE 0
           r == ReplaceFrom(rule, transformed, from + 1)
           matches == {j \in from + 1..Len(transformed) : RulePattern(rule, transformed, j) > 0}
       IN  IF ThrowsOn(rule, transformed)
           THEN /\ pc' = "thrown"
                /\ UNCHANGED <<transformed, stats, ruleIdx, regexLastIndex>>
           ELSE /\ transformed' = SubSeq(transformed, 1, from) \o r.text
                /\ stats' = IF r.fixCount > 0
                            THEN AddFixes(stats, RuleName(rule), r.fixCount) ELSE stats
                /\ ruleIdx' = ruleIdx + 1
                /\ pc' = pc
                /\ regexLastIndex' = [regexLastIndex EXCEPT ![rule] =
                       IF matches = {} THEN 0
                       ELSE CHOOSE j \in matches : \A k \in matches : k <= j]
    /\ UNCHANGED <<markdown, options, result, parts, partIdx, pieces, onStatsCalls>>
    /\ UNCHANGED returned
    /\ UNCHANGED <<pluginVars, consoleErrors, editorVars>>

\* lines 251-274: one rule of otherRules applied to the text part at hand.  No
\* try stands around the call of rule.replacement: when it throws, the exception
\* leaves transform, preserveCode and preprocessMDX, and the call is over
\* without a value returned (pc = "thrown").  String.prototype.replace with a
\* /g pattern sets the pattern's lastIndex to 0 before it matches, and its
\* last, failing, match leaves it 0 before any replacement function is called.
ApplyRule ==
    /\ pc = "transform"
    /\ partIdx <= Len(parts)
    /\ parts[partIdx].type = "text"
    /\ ruleIdx <= Len(OtherRules(options))
    /\ LET rule == OtherRules(options)[ruleIdx]
           r == ReplaceAll(rule, transformed)
       IN  IF ThrowsOn(rule, transformed)
           THEN /\ pc' = "thrown"
                /\ UNCHANGED <<transformed, stats, ruleIdx>>
           ELSE /\ transformed' = r.text
                /\ stats' = IF r.fixCount > 0
                            THEN AddFixes(stats, RuleName(rule), r.fixCount) ELSE stats
                /\ ruleIdx' = ruleIdx + 1
                /\ pc' = pc
    /\ UNCHANGED <<markdown, options, result, parts, partIdx, pieces, onStatsCalls>>
    /\ regexLastIndex' = [regexLastIndex EXCEPT ![OtherRules(options)[ruleIdx]] = 0]
    /\ UNCHANGED returned
    /\ UNCHANGED <<pluginVars, consoleErrors, editorVars>>

\* line 139: the map callback returns for this part, a code part as it is
PartDone ==
    /\ pc = "transform"
    /\ partIdx <= Len(parts)
    /\ parts[partIdx].type = "code" \/ ruleIdx > Len(OtherRules(options))
    /\ pieces' = Append(pieces, IF parts[partIdx].type = "code"
                                THEN parts[partIdx].content ELSE transformed)
    /\ partIdx' = partIdx + 1
    /\ ruleIdx' = 1
    /\ transformed' = IF partIdx + 1 <= Len(parts) THEN parts[partIdx + 1].content ELSE <<>>
    /\ UNCHANGED <<markdown, options, pc, result, stats, parts, onStatsCalls>>
    /\ UNCHANGED <<regexLastIndex, returned>>
    /\ UNCHANGED <<pluginVars, consoleErrors, editorVars>>

\* a variant of the return that calls onStats whatever the stats hold
ReturnAlwaysReports ==
    /\ pc = "transform"
    /\ partIdx > Len(parts)
    /\ result' = join(pieces)
    /\ onStatsCalls' = IF options.onStats THEN Append(onStatsCalls, stats) ELSE onStatsCalls
    /\ pc' = "done"
    /\ UNCHANGED <<markdown, options, stats, parts, partIdx, ruleIdx, transformed, pieces>>
    /\ UNCHANGED <<regexLastIndex, returned>>
    /\ UNCHANGED <<pluginVars, consoleErrors, editorVars>>

\* lines 140 and 283-291: join, the onStats callback, return
Return ==
    /\ pc = "transform"
    /\ partIdx > Len(parts)
    /\ result' = join(pieces)
    /\ onStatsCalls' = IF options.onStats /\ stats.totalFixes > 0
                       THEN Append(onStatsCalls, stats) ELSE onStatsCalls
    /\ pc' = "done"
    /\ UNCHANGED <<markdown, options, stats, parts, partIdx, ruleIdx, transformed, pieces>>
    /\ UNCHANGED <<regexLastIndex, returned>>
    /\ UNCHANGED <<pluginVars, consoleErrors, editorVars>>

Next == NormalizePass \/ SplitParts \/ ApplyRule \/ PartDone \/ Return

Spec == Init /\ [][Next]_vars

\* the sum of a sequence of numbers
RECURSIVE Sum(_)
Sum(ns) == IF ns = <<>> THEN 0 ELSE Head(ns) + Sum(Tail(ns))

\* preprocessMDX as a function of its arguments: the text it returns and the
\* totalFixes of its stats, or threw when a replacement function throws
preprocessMDX(text, opts) ==
    LET n == IF HasCodeBlockLangRule(opts) THEN NormalizeCodeBlockLanguage(text)
             ELSE [text |-> text, fixCount |-> 0]
        ps == IF opts.preserveCodeBlocks THEN CodeParts(n.text) ELSE <<TextPart(n.text)>>
        out == [k \in DOMAIN ps |->
                   IF ps[k].type = "code"
                   THEN [text |-> ps[k].content, fixCount |-> 0, threw |-> FALSE]
                   ELSE TransformFrom(OtherRules(opts), 1, ps[k].content)]
    IN  [text |-> join([k \in DOMAIN out |-> out[k].text]),
         totalFixes |-> n.fixCount + Sum([k \in DOMAIN out |-> out[k].fixCount]),
         threw |-> \E k \in DOMAIN out : out[k].threw]

(************************* further input spaces ***************************)

MaxFenceFrags == 3

\* a block fenced by six backquotes that holds a '<' before a digit
SixTickBlock ==
    Fence \o Fence \o <<"\n", "<", "5", "\n">> \o Fence \o Fence

\* fence lines with an argdown tag (plain; indented, in mixed case and with a
\* trailing space; behind four backquotes), no tag, an n/a, a known and an
\* unknown tag; a bare fence, a backquote, a trigger, a line break, and a block
\* fenced by six backquotes
FenceFragments ==
    { Fence \o <<"a","r","g","d","o","w","n","\n">>,
      <<" "," ">> \o Fence \o <<"A","r","g","D","o","w","n"," ","\n">>,
      <<Tick>> \o Fence \o <<"a","r","g","d","o","w","n","\n">>,
      Fence \o <<"\n">>,
      Fence \o <<"N","/","A","\n">>,
      Fence \o <<"j","s","\n">>,
      Fence \o <<"f","o","o","\n">>,
      Fence, <<Tick>>, <<"<","5">>, <<"\n">>, SixTickBlock }

InitFence == \E text \in TextsUpTo(FenceFragments, MaxFenceFrags) : FirstEntry(text, DefaultOptions)

SpecFence == InitFence /\ [][Next]_vars

MaxTagFrags == 3

\* tags whose name starts with a letter: opening, closing, self-closing, with an
\* attribute, with a digit or a hyphen in the name
WellFormedTags ==
    { <<"<","a",">">>, <<"<","/","a",">">>, <<"<","a","/",">">>, <<"<","a"," ","/",">">>,
      <<"<","a","5",">">>, <<"<","a","-","b",">">>,
      <<"<","a"," ","b","=","{","5","}",">">>,
      <<"<","a"," ","b","=","{","5","}"," ","/",">">> }

TagFragments ==
    WellFormedTags \cup { <<"5">>, <<" ">>, <<"<">>, <<">">>, <<"a">>, <<"<", "5">> }

InitTags == \E text \in TextsUpTo(TagFragments, MaxTagFrags) : FirstEntry(text, DefaultOptions)

SpecTags == InitTags /\ [][Next]_vars

MaxOptionFrags == 3

\* an opening fence line with a tag to normalize, a bare fence, a backquote, and
\* a '<' and a '>' before a digit
OptionFragments ==
    { Fence \o <<"a","r","g","d","o","w","n","\n">>, Fence, <<Tick>>, <<"<","5">>, <<">","5">> }

\* the rules arguments given: none (the default table) or an empty list
RulesGiven == { defaultPreprocessRules, <<>> }

\* the enable lists given: an empty one, two rules that both match '<' before a
\* digit, and some rules with a name that matches no rule
EnableGiven ==
    { {}, {"invalid-tag-opening", "less-than-digit"},
      {"greater-than-digit", LangRule, "no-such-rule"} }

\* the disable lists given: an empty one, one rule and a name that matches no
\* rule, and every rule
DisableGiven ==
    { {}, {"less-than-digit", "no-such-rule"},
      {defaultPreprocessRules[k] : k \in DOMAIN defaultPreprocessRules} }

\* the options objects given: each list given or not; onStats is whether a
\* callback is given
OptionsGiven ==
    {o \in [rules : RulesGiven, hasEnable : BOOLEAN, enable : EnableGiven,
            hasDisable : BOOLEAN, disable : DisableGiven,
            preserveCodeBlocks : BOOLEAN, onStats : BOOLEAN] :
        /\ ~o.hasEnable => o.enable = {}
        /\ ~o.hasDisable => o.disable = {}}

InitOptions ==
    \E text \in TextsUpTo(OptionFragments, MaxOptionFrags) :
        \E opts \in OptionsGiven : FirstEntry(text, opts)

SpecOptions == InitOptions /\ [][Next]_vars

MaxCustomFrags == 3

\* fragments of texts for calls with custom rule lists: a '<' and a '>' before
\* a digit, the character the throwing rule matches, an inline code span, a space
CustomFragments ==
    { <<"<", "5">>, <<">", "5">>, <<"-">>, <<Tick, "<", "5", Tick>>, <<" ">> }

\* the rule lists given: a list with a throwing rule between two default rules,
\* a list in which two rules share a name, a list in another order than the
\* default one, and the default list
CustomRuleLists ==
    { <<"less-than-digit", ThrowingRule, "greater-than-digit">>,
      <<"less-than-digit", RepeatRule>>,
      <<"invalid-tag-opening", "less-than-digit">>,
      defaultPreprocessRules }

InitCustom ==
    \E text \in TextsUpTo(CustomFragments, MaxCustomFrags) :
        \E rules \in CustomRuleLists, preserve \in BOOLEAN :
            FirstEntry(text, [DefaultOptions EXCEPT !.rules = rules,
                                               !.preserveCodeBlocks = preserve])

SpecCustom == InitCustom /\ [][Next]_vars

MaxCalls == 2

\* the texts of calls made one after another
CallTexts ==
    { <<>>, <<"<", "5">>, <<"<", "5", " ", ">", "5">>,
      <<Tick, "<", "5", Tick, ">", "5">>, <<"<", "5", "-">> }

\* the rule lists of calls made one after another
CallRuleLists ==
    { defaultPreprocessRules, <<"less-than-digit", ThrowingRule, "greater-than-digit">> }

\* what a call that has ended leaves to see: its arguments, whether it threw,
\* the text and the stats it ended with
Outcome ==
    [markdown |-> markdown, options |-> options, threw |-> pc = "thrown",
     text |-> result, stats |-> stats]

\* lines 146-184: a further call of preprocessMDX after a call has ended.  Its
\* locals are new (stats is a new object, lines 181-184); the RegExp objects of
\* the rules are the ones the calls before have used.
CallAgain ==
    /\ pc \in {"done", "thrown"}
    /\ Len(returned) + 1 < MaxCalls
    /\ returned' = Append(returned, Outcome)
    /\ \E text \in CallTexts, rules \in CallRuleLists :
          /\ markdown' = text
          /\ options' = [DefaultOptions EXCEPT !.rules = rules]
          /\ result' = text
    /\ pc' = "start"
    /\ stats' = EmptyStats
    /\ parts' = <<>>
    /\ partIdx' = 1
    /\ ruleIdx' = 1
    /\ transformed' = <<>>
    /\ pieces' = <<>>
    /\ onStatsCalls' = <<>>
    /\ UNCHANGED regexLastIndex
    /\ UNCHANGED <<pluginVars, consoleErrors, editorVars>>

NextCalls == Next \/ CallAgain

InitCalls ==
    \E text \in CallTexts, rules \in CallRuleLists :
        FirstEntry(text, [DefaultOptions EXCEPT !.rules = rules])

SpecCalls == InitCalls /\ [][NextCalls]_vars

(************************* the remark plugin ******************************)

\* a text node and a code node of the tree
TextNode(value) == [type |-> "text", value |-> value]

CodeNode(lang) == [type |-> "code", lang |-> lang]

\* a custom transformer { name: 'custom-throws', defaultEnabled: true } whose
\* transform throws
ThrowingTransformer == "custom-throws"

defaultTransformers ==
    << "less-than-digit", "greater-than-digit", "invalid-tag-names", "code-block-language" >>

\* LANGUAGE_MAP of the tree-based variant, at the keys a lower-case lang can be
LANGUAGE_MAP(lang) ==
    CASE lang = <<"n","/","a">> -> <<"t","e","x","t">>
      [] lang = <<"a","r","g","d","o","w","n">> -> <<"m","a","r","k","d","o","w","n">>
      [] OTHER -> <<>>

\* codeBlockLanguageTransformer on one code node: the lang the node has after it
codeBlockLanguageTransformer(nodeLang) ==
    LET lang == trim(toLowerCase(nodeLang))
    IN  IF lang = <<>> THEN <<"t","e","x","t">>
        ELSE IF LANGUAGE_MAP(lang) # <<>> THEN LANGUAGE_MAP(lang)
        ELSE nodeLang

\* the patterns that a transformer replaces in the value of a text node, in its
\* order, each by the name of the rule of the text variant with that pattern
\* and that replacement
ReplacesOf(transformer) ==
    CASE transformer = "less-than-digit" -> <<"less-than-digit", "less-than-space-digit">>
      [] transformer = "greater-than-digit" -> <<"greater-than-digit">>
      [] transformer = "invalid-tag-names" -> <<"invalid-tag-opening", "numeric-only-tag">>
      [] OTHER -> <<>>

\* the replace calls of a transformer on the value of a text node, one after
\* the other: the value after them and the replacements made
ReplaceEach(names, s) ==
    LET none == [text |-> s, fixCount |-> 0]
        first == IF Len(names) >= 1 THEN ReplaceAll(names[1], s) ELSE none
        second == IF Len(names) >= 2 THEN ReplaceAll(names[2], first.text)
                  ELSE [text |-> first.text, fixCount |-> 0]
    IN  [text |-> second.text, fixCount |-> first.fixCount + second.fixCount]

\* transformer.transform on one node: the node after it and the fixes counted
TransformNode(transformer, node) ==
    IF node.type = "text"
    THEN LET r == ReplaceEach(ReplacesOf(transformer), node.value)
         IN  [node |-> TextNode(r.text), fixCount |-> r.fixCount]
    ELSE IF transformer = "code-block-language"
              /\ codeBlockLanguageTransformer(node.lang) # node.lang
         THEN [node |-> CodeNode(codeBlockLanguageTransformer(node.lang)), fixCount |-> 1]
    ELSE [node |-> node, fixCount |-> 0]

\* transformer.transform on the tree: visit of every node
TransformTree(transformer, t) ==
    LET out == [k \in DOMAIN t |-> TransformNode(transformer, t[k])]
    IN  [tree |-> [k \in DOMAIN t |-> out[k].node],
         fixCount |-> Sum([k \in DOMAIN t |-> out[k].fixCount])]

\* activeTransformers: all of them are defaultEnabled; the enable and disable
\* filters as in preprocessMDX
ActiveTransformers(opts) ==
    LET enabled == IF opts.hasEnable /\ opts.enable # {}
                   THEN SelectSeq(opts.transformers, LAMBDA t : t \in opts.enable)
                   ELSE opts.transformers
    IN  IF opts.hasDisable /\ opts.disable # {}
        THEN SelectSeq(enabled, LAMBDA t : t \notin opts.disable)
        ELSE enabled

MaxTreeNodes == 2

\* the nodes of the trees given
NodesGiven ==
    { TextNode(<<"<", "5">>), TextNode(<<">", "5">>), TextNode(<<"<", "/", "5">>),
      TextNode(<<"a">>), CodeNode(<<>>), CodeNode(<<"a","r","g","d","o","w","n">>),
      CodeNode(<<"j","s">>) }

\* the transformer lists given
TransformersGiven ==
    { defaultTransformers,
      <<"less-than-digit", ThrowingTransformer, "greater-than-digit", "code-block-language">>,
      <<ThrowingTransformer>> }

\* the plugin's transformer function is called on a tree: stats created
InitPlugin ==
    /\ \E t \in TextsUpTo({<<n>> : n \in NodesGiven}, MaxTreeNodes) :
          tree = t /\ treeGiven = t
    /\ \E ts \in TransformersGiven, off \in {{}, {"greater-than-digit"}} :
          options = [transformers |-> ts, hasEnable |-> FALSE, enable |-> {},
                     hasDisable |-> off # {}, disable |-> off, onStats |-> TRUE]
    /\ pc = "plugin"
    /\ stats = EmptyStats
    /\ transformerIdx = 1
    /\ onStatsCalls = <<>>
    /\ consoleErrors = <<>>
    /\ markdown = <<>>
    /\ result = <<>>
    /\ parts = <<>>
    /\ partIdx = 1
    /\ ruleIdx = 1
    /\ transformed = <<>>
    /\ pieces = <<>>
    /\ regexLastIndex = [r \in AllRules |-> 0]
    /\ returned = <<>>
    /\ NoEditor

\* what no step of the plugin changes
PluginFrame ==
    UNCHANGED <<markdown, options, result, parts, partIdx, ruleIdx, transformed, pieces,
                regexLastIndex, returned, treeGiven, editorVars>>

\* a variant of the loop that ends when a transformer throws
ApplyTransformerStopsOnError ==
    /\ pc = "plugin"
    /\ transformerIdx <= Len(ActiveTransformers(options))
    /\ LET transformer == ActiveTransformers(options)[transformerIdx]
           r == TransformTree(transformer, tree)
       IN  IF transformer = ThrowingTransformer
           THEN /\ consoleErrors' = Append(consoleErrors, transformer)
                /\ transformerIdx' = Len(ActiveTransformers(options)) + 1
                /\ UNCHANGED <<tree, stats>>
           ELSE /\ tree' = r.tree
                /\ stats' = SetFixes(stats, transformer, r.fixCount)
                /\ transformerIdx' = transformerIdx + 1
                /\ UNCHANGED consoleErrors
    /\ UNCHANGED <<pc, onStatsCalls>>
    /\ PluginFrame

\* plugin.ts lines 102-117: one turn of the loop over activeTransformers, the
\* call of transform inside try, console.error with the name in catch
ApplyTransformer ==
    /\ pc = "plugin"
    /\ transformerIdx <= Len(ActiveTransformers(options))
    /\ \E transformer \in {ActiveTransformers(options)[transformerIdx]} :
          IF transformer = ThrowingTransformer
          THEN /\ consoleErrors' = Append(consoleErrors, transformer)
               /\ UNCHANGED <<tree, stats>>
          ELSE \E r \in {TransformTree(transformer, tree)} :
                  /\ tree' = r.tree
                  /\ stats' = SetFixes(stats, transformer, r.fixCount)
                  /\ UNCHANGED consoleErrors
    /\ transformerIdx' = transformerIdx + 1
    /\ UNCHANGED <<pc, onStatsCalls>>
    /\ PluginFrame

\* plugin.ts lines 123-126: the report of the stats, and the return
PluginReport ==
    /\ pc = "plugin"
    /\ transformerIdx > Len(ActiveTransformers(options))
    /\ onStatsCalls' = IF options.onStats /\ stats.totalFixes > 0
                       THEN Append(onStatsCalls, stats) ELSE onStatsCalls
    /\ pc' = "plugin-done"
    /\ UNCHANGED <<tree, stats, transformerIdx, consoleErrors>>
    /\ PluginFrame

NextPlugin == ApplyTransformer \/ PluginReport

SpecPlugin == InitPlugin /\ [][NextPlugin]_vars

(************************** ThemedMDXEditor *******************************)
(* The component without the markdown prop (isControlled is false), so     *)
(* currentValue is internalValue, and with an onSave prop.  A step is an   *)
(* event with the renders and effect passes that follow it: React runs the *)
(* effects of a render before it handles the next event.                   *)

\* the value undefined of a prop
Undefined == <<"undefined">>

\* the markdown values of the editor; <<>> is the empty string
EditorValues == { <<>>, <<"a">>, <<"b">> }

\* the values of the filePath prop
FilePaths == { Undefined, <<"f">>, <<"g">> }

MaxPendingSaves == 2

MaxSaveErrors == 1

\* the props, the state and the refs of the component that the effects read
\* and write
EditorState ==
    [initialValue |-> initialValue, filePath |-> filePath,
     internalValue |-> internalValue, savedValue |-> savedValue, isDirty |-> isDirty,
     prevInitialValueRef |-> prevInitialValueRef, prevFilePathRef |-> prevFilePathRef,
     dirtyDeps |-> dirtyDeps]

\* lines 150-157: the effect on initialValue, run after a render of state st
InitialValueEffect(st, st0) ==
    IF st.initialValue # Undefined /\ st.initialValue # st.prevInitialValueRef
    THEN [st EXCEPT !.internalValue = st.initialValue, !.savedValue = st.initialValue,
                    !.isDirty = FALSE, !.prevInitialValueRef = st.initialValue]
    ELSE st

\* lines 159-169: the effect on filePath; st0 is the state that was rendered,
\* st the state with the updates that the effects before this one have queued
FilePathEffect(st, st0) ==
    IF st.filePath # st.prevFilePathRef
    THEN LET baseline == IF st.initialValue # Undefined THEN st.initialValue
                         ELSE st0.internalValue
         IN  [st EXCEPT !.internalValue = IF st.initialValue # Undefined
                                           THEN st.initialValue ELSE st.internalValue,
                        !.savedValue = baseline,
                        !.isDirty = FALSE,
                        !.prevFilePathRef = st.filePath]
    ELSE st

\* lines 171-174: the effect on [currentValue, savedValue], run when one of the
\* two differs from what it was at the render before
DirtyEffect(st, st0) ==
    IF <<st0.internalValue, st0.savedValue>> # st0.dirtyDeps
    THEN [st EXCEPT !.isDirty = st0.internalValue # st0.savedValue,
                    !.dirtyDeps = <<st0.internalValue, st0.savedValue>>]
    ELSE st

\* the effects of one render in their order: the state after the updates they queue
EffectPass(st) == DirtyEffect(FilePathEffect(InitialValueEffect(st, st), st), st)

\* renders and effect passes until a pass changes nothing
RECURSIVE Settle(_)
Settle(st) == LET next == EffectPass(st) IN IF next = st THEN st ELSE Settle(next)

\* the component after an event left its state and refs as st
Settled(st) ==
    LET end == Settle(st)
    IN  /\ initialValue' = end.initialValue
        /\ filePath' = end.filePath
        /\ internalValue' = end.internalValue
        /\ savedValue' = end.savedValue
        /\ isDirty' = end.isDirty
        /\ prevInitialValueRef' = end.prevInitialValueRef
        /\ prevFilePathRef' = end.prevFilePathRef
        /\ dirtyDeps' = end.dirtyDeps

\* what no step of the editor changes
EditorFrame ==
    UNCHANGED <<markdown, options, pc, result, stats, parts, partIdx, ruleIdx, transformed,
                pieces, onStatsCalls, regexLastIndex, returned, pluginVars>>

\* lines 120-133: the first render; computeInitialValue gives both state values
InitEditor ==
    /\ initialValue \in EditorValues \cup {Undefined}
    /\ filePath \in FilePaths
    /\ internalValue = (IF initialValue # Undefined THEN initialValue ELSE <<>>)
    /\ savedValue = internalValue
    /\ isDirty = FALSE
    /\ prevInitialValueRef = initialValue
    /\ prevFilePathRef = filePath
    /\ dirtyDeps = <<internalValue, savedValue>>
    /\ pendingSaves = <<>>
    /\ consoleErrors = <<>>
    /\ pc = "editor"
    /\ markdown = <<>>
    /\ options = DefaultOptions
    /\ result = <<>>
    /\ stats = EmptyStats
    /\ parts = <<>>
    /\ partIdx = 1
    /\ ruleIdx = 1
    /\ transformed = <<>>
    /\ pieces = <<>>
    /\ onStatsCalls = <<>>
    /\ regexLastIndex = [r \in AllRules |-> 0]
    /\ returned = <<>>
    /\ NoPlugin

\* lines 188-199: handleChange, the editor reports a value
handleChange ==
    /\ pc = "editor"
    /\ \E value \in EditorValues :
          Settled([EditorState EXCEPT !.internalValue = value,
                                      !.isDirty = value # savedValue])
    /\ UNCHANGED <<pendingSaves, consoleErrors>>
    /\ EditorFrame

\* the parent renders the component with another initialValue
InitialValueChanges ==
    /\ pc = "editor"
    /\ \E value \in (EditorValues \cup {Undefined}) \ {initialValue} :
          Settled([EditorState EXCEPT !.initialValue = value])
    /\ UNCHANGED <<pendingSaves, consoleErrors>>
    /\ EditorFrame

\* the parent renders the component with another filePath
FilePathChanges ==
    /\ pc = "editor"
    /\ \E path \in FilePaths \ {filePath} :
          Settled([EditorState EXCEPT !.filePath = path])
    /\ UNCHANGED <<pendingSaves, consoleErrors>>
    /\ EditorFrame

\* lines 180-186: updateSavedState
updateSavedState(nextSavedValue) ==
    [EditorState EXCEPT !.savedValue = nextSavedValue, !.isDirty = FALSE]

\* lines 201-209: handleSave with an onSave that returns no promise
SaveReturns ==
    /\ pc = "editor"
    /\ Settled(updateSavedState(internalValue))
    /\ UNCHANGED <<pendingSaves, consoleErrors>>
    /\ EditorFrame

\* lines 201-212: handleSave with an onSave that throws
SaveThrows ==
    /\ pc = "editor"
    /\ Len(consoleErrors) < MaxSaveErrors
    /\ consoleErrors' = Append(consoleErrors, "Failed to save editor contents")
    /\ UNCHANGED editorVars
    /\ EditorFrame

\* lines 201-207: handleSave with an onSave that returns a promise: the call
\* waits at the await with the value it handed to onSave
SaveStarts ==
    /\ pc = "editor"
    /\ Len(pendingSaves) < MaxPendingSaves
    /\ pendingSaves' = Append(pendingSaves, internalValue)
    /\ UNCHANGED <<internalValue, savedValue, isDirty, initialValue, filePath,
                   prevInitialValueRef, prevFilePathRef, dirtyDeps, consoleErrors>>
    /\ EditorFrame

\* the pending saves without the k-th
WithoutSave(k) ==
    SubSeq(pendingSaves, 1, k - 1) \o SubSeq(pendingSaves, k + 1, Len(pendingSaves))

\* a variant of the rejected save that sets the baseline all the same
SaveRejectsUpdatesBaseline ==
    /\ pc = "editor"
    /\ Len(consoleErrors) < MaxSaveErrors
    /\ \E k \in DOMAIN pendingSaves :
          /\ pendingSaves' = WithoutSave(k)
          /\ Settled(updateSavedState(pendingSaves[k]))
    /\ consoleErrors' = Append(consoleErrors, "Failed to save editor contents")
    /\ EditorFrame

\* lines 207-209: the promise of a pending save resolves
SaveResolves ==
    /\ pc = "editor"
    /\ \E k \in DOMAIN pendingSaves :
          /\ pendingSaves' = WithoutSave(k)
          /\ Settled(updateSavedState(pendingSaves[k]))
    /\ UNCHANGED consoleErrors
    /\ EditorFrame

\* lines 207 and 210-212: the promise of a pending save rejects
SaveRejects ==
    /\ pc = "editor"
    /\ Len(consoleErrors) < MaxSaveErrors
    /\ \E k \in DOMAIN pendingSaves : pendingSaves' = WithoutSave(k)
    /\ consoleErrors' = Append(consoleErrors, "Failed to save editor contents")
    /\ UNCHANGED <<internalValue, savedValue, isDirty, initialValue, filePath,
                   prevInitialValueRef, prevFilePathRef, dirtyDeps>>
    /\ EditorFrame

NextEditor ==
    \/ handleChange
    \/ InitialValueChanges
    \/ FilePathChanges
    \/ SaveReturns
    \/ SaveThrows
    \/ SaveStarts
    \/ SaveResolves
    \/ SaveRejects

SpecEditor == InitEditor /\ [][NextEditor]_vars

(************************* reading an output ******************************)

\* The positions of text in whose '<' or '>' stands as '&lt;' or '&gt;' in text
\* out, every other character of in standing unchanged in out; 0 is a member
\* when out is not in with some of its '<' and '>' so replaced.
RECURSIVE EscapesFrom(_, _, _, _)
EscapesFrom(in, out, i, j) ==
    LET same == Least({k \in 0..Len(in) :
                          i + k > Len(in) \/ j + k > Len(out) \/ in[i + k] # out[j + k]}, 0)
        a == i + same
        b == j + same
    IN  IF a > Len(in) THEN (IF b > Len(out) THEN {} ELSE {0})
        ELSE IF in[a] = "<" /\ b + 3 <= Len(out) /\ SubSeq(out, b, b + 3) = EntityLt
             THEN {a} \cup EscapesFrom(in, out, a + 1, b + 4)
        ELSE IF in[a] = ">" /\ b + 3 <= Len(out) /\ SubSeq(out, b, b + 3) = EntityGt
             THEN {a} \cup EscapesFrom(in, out, a + 1, b + 4)
        ELSE {0}

Escapes(in, out) == EscapesFrom(in, out, 1, 1)

\* the text part at hand in the transform loop
Span == parts[partIdx].content

InTextPart == pc = "transform" /\ partIdx <= Len(parts) /\ parts[partIdx].type = "text"

(******************************** C1 **************************************)

\* C1: a second call on the text a call returned makes no replacement: it
\* returns that text and its totalFixes is 0.
C1_SecondPassIsNoOp ==
    pc = "done" =>
        LET again == preprocessMDX(result, options)
        IN  again.text = result /\ again.totalFixes = 0

(******************************** C2 **************************************)

\* no active rule's pattern matches anywhere in the text
NoPatternMatches(text) ==
    \A k \in DOMAIN ActiveRules(options) : \A i \in DOMAIN text :
        RulePattern(ActiveRules(options)[k], text, i) = 0

\* C2: a text in which no active rule's pattern matches is returned character
\* for character, with totalFixes = 0 and without a call of onStats.
C2_NoMatchReturnsInput ==
    (pc = "done" /\ NoPatternMatches(markdown)) =>
        /\ result = markdown
        /\ stats = EmptyStats
        /\ onStatsCalls = <<>>

\* a whitespace-only text of several characters went through the call
C2_Witness ==
    /\ pc = "done"
    /\ NoPatternMatches(markdown)
    /\ Len(markdown) >= 2
    /\ \A i \in DOMAIN markdown : IsWhitespace(markdown[i])
    /\ \E i \in DOMAIN markdown : markdown[i] = "\n"

(******************************** C3 **************************************)

\* the text after the language-tag pass
Normalized == NormalizeCodeBlockLanguage(markdown).text

\* the number of backquotes that stand in a row from position i on
TickRun(s, i) == Least({j \in i..Len(s) : s[j] # Tick}, Len(s) + 1) - i

\* the protected region that starts at position i, by its length (0: none): a
\* fenced block, from a fence (a run of three or more backquotes) through the
\* next fence, or an inline span, from a backquote through the next backquote
\* with one or more characters and no line break in between
RegionAt(s, i) ==
    LET n == TickRun(s, i)
        close == Least({j \in (i + n)..Len(s) : TickRun(s, j) >= 3}, 0)
        run == NoTickNoBreakRun(s, i + 1)
    IN  IF n >= 3 THEN (IF close = 0 THEN 0 ELSE close + TickRun(s, close) - i)
        ELSE IF s[i] = Tick /\ run >= 1 /\ i + 1 + run <= Len(s) /\ s[i + 1 + run] = Tick
             THEN run + 2
        ELSE 0

\* the protected regions <<first, last>> of a text from position i on: the
\* leftmost one, then those of the text after it
RECURSIVE ProtectedRegionsFrom(_, _)
ProtectedRegionsFrom(s, i) ==
    LET at == Least({j \in i..Len(s) : RegionAt(s, j) > 0}, 0)
        end == at + RegionAt(s, at)
    IN  IF at = 0 THEN {} ELSE {<<at, end - 1>>} \cup ProtectedRegionsFrom(s, end)

ProtectedRegions(s) == ProtectedRegionsFrom(s, 1)

\* C3: with preserveCodeBlocks at its default, every protected region, a fenced
\* block from its opening fence through its closing fence or an inline code
\* span, stands in the output with the characters it has in the input, the
\* language tag apart: the output is the tag-normalized input with some '<' and
\* '>' rewritten, none of them inside a protected region.
C3_ProtectedRegionsUnchanged ==
    pc = "done" =>
        LET esc == Escapes(Normalized, result)
        IN  /\ 0 \notin esc
            /\ \A b \in ProtectedRegions(Normalized) :
                  \A i \in esc : ~(b[1] <= i /\ i <= b[2])

(******************************** C4 **************************************)

\* the occurrences <<i, j>> of a well-formed letter-named tag in the input
TagOccurrences ==
    {o \in (DOMAIN markdown) \X (DOMAIN markdown) :
        o[1] <= o[2] /\ SubSeq(markdown, o[1], o[2]) \in WellFormedTags}

\* the character before position i is a word character or a hyphen
AfterWordOrHyphen(s, i) == i > 1 /\ (s[i - 1] = "-" \/ IsWordChar(s[i - 1]))

\* a digit follows position i, directly or after one whitespace character
DigitAhead(s, i) ==
    \/ i + 1 <= Len(s) /\ IsDigit(s[i + 1])
    \/ i + 2 <= Len(s) /\ IsWhitespace(s[i + 1]) /\ IsDigit(s[i + 2])

LtBeforeWhitespaceDigit(s) ==
    {i \in DOMAIN s :
        /\ s[i] = "<"
        /\ \E d \in (i + 1)..Len(s) :
              IsDigit(s[d]) /\ \A k \in (i + 1)..(d - 1) : IsWhitespace(s[k])}

\* the '<' of s that stand before a digit with only space characters in between
LtBeforeSpacesDigit(s) ==
    {i \in DOMAIN s :
        /\ s[i] = "<"
        /\ \E d \in (i + 1)..Len(s) :
              IsDigit(s[d]) /\ \A k \in (i + 1)..(d - 1) : s[k] = " "}

\* less-than-digit and less-than-space-digit have just run on the span
AfterLessThanRules ==
    InTextPart /\ ruleIdx = 3 /\ OtherRules(options)[2] = "less-than-space-digit"

\* C5 as stated: the two less-than rules rewrite exactly the '<' that are
\* followed by zero or more space characters and a digit.
C5_LessThanBeforeSpacesDigit ==
    AfterLessThanRules => Escapes(Span, transformed) = LtBeforeSpacesDigit(Span)

\* C5 amended: the two less-than rules rewrite exactly the '<' that are followed
\* by zero or more whitespace characters (space, tab, line break) and a digit;
\* nothing else of the span changes.
C5_LessThanBeforeWhitespaceDigit ==
    AfterLessThanRules => Escapes(Span, transformed) = LtBeforeWhitespaceDigit(Span)

\* the span holds a '<' that was rewritten before a line break and a digit, and
\* a '<' that is followed by neither and was kept
C5_Witness ==
    /\ AfterLessThanRules
    /\ \E i \in DOMAIN Span :
          /\ i + 2 <= Len(Span)
          /\ Span[i] = "<" /\ Span[i + 1] = "\n" /\ IsDigit(Span[i + 2])
          /\ i \in Escapes(Span, transformed)
    /\ \E i \in DOMAIN Span : Span[i] = "<" /\ i \notin Escapes(Span, transformed)

(******************************** C6 **************************************)

\* the '>' of s that do not follow a word character or hyphen and stand before
\* a digit, directly or after one whitespace character
GtBeforeWhitespaceDigit(s) ==
    {i \in DOMAIN s : s[i] = ">" /\ ~AfterWordOrHyphen(s, i) /\ DigitAhead(s, i)}

\* the same with one space character in the place of the whitespace character
GtBeforeSpaceDigit(s) ==
    {i \in DOMAIN s :
        /\ s[i] = ">"
        /\ ~AfterWordOrHyphen(s, i)
        /\ \/ i + 1 <= Len(s) /\ IsDigit(s[i + 1])
           \/ i + 2 <= Len(s) /\ s[i + 1] = " " /\ IsDigit(s[i + 2])}

\* greater-than-digit has just run on the span
AfterGreaterThanRule ==
    InTextPart /\ ruleIdx = 4 /\ OtherRules(options)[3] = "greater-than-digit"

\* C6 as stated: greater-than-digit rewrites a '>' exactly when it does not
\* follow a word character or hyphen and an optional single space and a digit
\* follow it; nothing but these '>' changes (the '<' rewritten before remain).
C6_GreaterThanBeforeSpaceDigit ==
    AfterGreaterThanRule =>
        Escapes(Span, transformed) = LtBeforeWhitespaceDigit(Span) \cup GtBeforeSpaceDigit(Span)

\* C6 amended: the optional character between the '>' and the digit is any
\* single whitespace character (space, tab, line break).
C6_GreaterThanBeforeWhitespaceDigit ==
    AfterGreaterThanRule =>
        Escapes(Span, transformed) =
            LtBeforeWhitespaceDigit(Span) \cup GtBeforeWhitespaceDigit(Span)

\* the span holds a '>' that was rewritten and a '>' before a digit that was
\* kept because it follows a word character or a hyphen
C6_Witness ==
    /\ AfterGreaterThanRule
    /\ \E i \in DOMAIN Span : Span[i] = ">" /\ i \in Escapes(Span, transformed)
    /\ \E i \in DOMAIN Span :
          /\ Span[i] = ">"
          /\ AfterWordOrHyphen(Span, i)
          /\ DigitAhead(Span, i)
          /\ i \notin Escapes(Span, transformed)

(******************************** C7 **************************************)

\* the occurrences <<i, j>> in the input of a tag-like sequence whose name
\* starts with a digit: '<', an optional '/', a digit, word characters, '>'
DigitTagOccurrences ==
    {o \in (DOMAIN markdown) \X (DOMAIN markdown) :
        LET n == IF o[1] + 1 <= Len(markdown) /\ markdown[o[1] + 1] = "/"
                 THEN o[1] + 2 ELSE o[1] + 1
        IN  /\ markdown[o[1]] = "<"
            /\ n < o[2]
            /\ IsDigit(markdown[n])
            /\ \A k \in n..(o[2] - 1) : IsWordChar(markdown[k])
            /\ markdown[o[2]] = ">"}

\* C7: of a tag-like sequence whose name starts with a digit the leading '<' is
\* rewritten to '&lt;', once, and the rest up to and with the closing '>' is kept.
C7_DigitTagEscapedAtItsStart ==
    pc = "done" =>
        LET esc == Escapes(markdown, result)
        IN  /\ 0 \notin esc
            /\ \A o \in DigitTagOccurrences :
                  o[1] \in esc /\ \A k \in (o[1] + 1)..o[2] : k \notin esc

(**************************** C8, C9, C10 **********************************)

\* the number of spaces and tabs that stand in a row from position i on
IndentRun(s, i) == Least({j \in i..Len(s) : s[j] \notin {" ", "\t"}}, Len(s) + 1) - i

NoLine == [len |-> 0, text |-> <<>>, indent |-> <<>>, fence |-> <<>>, lang |-> <<>>]

\* a fence line at position i: at the start of a line an optional indentation, a
\* fence of three or more backquotes, a tag without backquote, a line break
FenceLineAt(s, i) ==
    LET f == i + IndentRun(s, i)
        n == TickRun(s, f)
        e == f + n + NoTickNoBreakRun(s, f + n)
    IN  IF /\ (i = 1 \/ s[i - 1] = "\n")
           /\ n >= 3
           /\ e <= Len(s)
           /\ s[e] = "\n"
        THEN [len |-> e - i + 1, text |-> SubSeq(s, i, e), indent |-> SubSeq(s, i, f - 1),
              fence |-> SubSeq(s, f, f + n - 1), lang |-> SubSeq(s, f + n, e - 1)]
        ELSE NoLine

\* the fence lines of a text from position i on, in order
RECURSIVE FenceLinesFrom(_, _)
FenceLinesFrom(s, i) ==
    LET at == Least({j \in i..Len(s) : FenceLineAt(s, j).len > 0}, 0)
        line == FenceLineAt(s, at)
    IN  IF at = 0 THEN <<>> ELSE <<line>> \o FenceLinesFrom(s, at + line.len)

FenceLines(s) == FenceLinesFrom(s, 1)

\* the opening fences among them: the first, the third, ... (openers and closers alternate)
OpeningFences(lines) == {k \in DOMAIN lines : k % 2 = 1}

\* the tag of a fence line, trimmed and in lower case
TagOf(line) == toLowerCase(trim(line.lang))

BadTags == { <<>>, <<"n","/","a">>, <<"a","r","g","d","o","w","n">> }

\* C8: an opening fence whose tag is empty, whitespace-only or 'n/a' gets the
\* tag 'text': its line becomes the indentation, the fence and 'text'.
C8_EmptyOrNaBecomesText ==
    pc \in {"normalized", "done"} =>
        LET before == FenceLines(markdown)
            after == FenceLines(result)
        IN  /\ Len(after) = Len(before)
            /\ \A k \in OpeningFences(before) :
                  TagOf(before[k]) \in { <<>>, <<"n","/","a">> } =>
                      after[k].text =
                          before[k].indent \o before[k].fence \o <<"t","e","x","t","\n">>

\* C9: an opening fence whose trimmed tag is 'argdown' in any case gets the tag
\* 'markdown' and keeps its indentation and its fence, each such fence of the
\* document.
C9_ArgdownBecomesMarkdown ==
    pc \in {"normalized", "done"} =>
        LET before == FenceLines(markdown)
            after == FenceLines(result)
        IN  /\ Len(after) = Len(before)
            /\ \A k \in OpeningFences(before) :
                  TagOf(before[k]) = <<"a","r","g","d","o","w","n">> =>
                      after[k].text =
                          before[k].indent \o before[k].fence
                              \o <<"m","a","r","k","d","o","w","n","\n">>

\* the fixes recorded for the language-tag rule
LanguageFixes ==
    IF LangRule \in DOMAIN stats.byTransformer THEN stats.byTransformer[LangRule] ELSE 0

\* C10: an opening fence whose tag is a known language, or any other tag that is
\* not empty and not a known-bad one, stands after the language-tag pass as it
\* stood before, and is not counted: the fixes the pass records are as many as
\* the fence lines it changed.
C10_OtherTagsKept ==
    pc = "normalized" =>
        LET before == FenceLines(markdown)
            after == FenceLines(result)
        IN  /\ Len(after) = Len(before)
            /\ \A k \in OpeningFences(before) :
                  TagOf(before[k]) \notin BadTags => after[k] = before[k]
            /\ LanguageFixes = Cardinality({k \in DOMAIN before : after[k] # before[k]})

\* the pass has run on a document that opened one block with a tag that was
\* rewritten and counted, and another with an unknown tag
C10_Witness ==
    /\ pc = "normalized"
    /\ LanguageFixes = 1
    /\ LET before == FenceLines(markdown)
       IN  \E k \in OpeningFences(before) : TagOf(before[k]) \notin knownLanguages \cup BadTags

(******************************** C11 *************************************)

\* the positions of the line breaks of a text
Breaks(s) == {j \in DOMAIN s : s[j] = "\n"}

\* the number of the line that holds position p, counted from 1
LineNo(s, p) == 1 + Cardinality({j \in Breaks(s) : j < p})

\* the n-th line of a text, with the line break that ends it
Line(s, n) ==
    LET first == IF n = 1 THEN 1
                 ELSE 1 + (CHOOSE j \in Breaks(s) : Cardinality({k \in Breaks(s) : k <= j}) = n - 1)
        last == Least({j \in Breaks(s) : j >= first}, Len(s))
    IN  SubSeq(s, first, last)

\* the first position of the k-th of a sequence of parts in their concatenation
PartStart(ps, k) == 1 + Sum([j \in 1..(k - 1) |-> Len(ps[j].content)])

\* the positions in the text at which the fenced blocks of the segmenter end
ClosingFenceEnds(s) ==
    LET ps == CodeParts(s)
    IN  {PartStart(ps, k) + Len(ps[k].content) - 1 :
            k \in {j \in DOMAIN ps : ps[j].type = "code" /\ FenceAt(ps[j].content, 1)}}

\* C11: the language-tag pass leaves the closing fence of every fenced block, as
\* the segmenter delimits the block, as it is: the line that holds the closing
\* fence is the same after the pass as before it.
C11_ClosingFenceKept ==
    pc = "normalized" =>
        \A e \in ClosingFenceEnds(markdown) :
            Line(result, LineNo(markdown, e)) = Line(markdown, LineNo(markdown, e))

(******************************** C12 *************************************)

\* the texts between the fence lines of a text from position i on, in order:
\* what stands before the first fence line, between two, and after the last
RECURSIVE FenceGapsFrom(_, _)
FenceGapsFrom(s, i) ==
    LET at == Least({j \in i..Len(s) : FenceLineAt(s, j).len > 0}, 0)
    IN  IF at = 0 THEN <<SubSeq(s, i, Len(s))>>
        ELSE <<SubSeq(s, i, at - 1)>> \o FenceGapsFrom(s, at + FenceLineAt(s, at).len)

FenceGaps(s) == FenceGapsFrom(s, 1)

\* C12: the language-tag pass changes nothing but the tag of an opening fence:
\* the text outside the fence lines, every closing fence line, and of an opening
\* fence line the indentation, the fence and the line break are the same after
\* the pass as before it.
C12_OnlyOpeningTagsChange ==
    pc = "normalized" =>
        LET before == FenceLines(markdown)
            after == FenceLines(result)
        IN  /\ FenceGaps(result) = FenceGaps(markdown)
            /\ Len(after) = Len(before)
            /\ \A k \in DOMAIN before :
                  /\ after[k].indent = before[k].indent
                  /\ after[k].fence = before[k].fence
                  /\ k \notin OpeningFences(before) => after[k] = before[k]

(******************************** C13 *************************************)

\* the fixes the statistics record for a rule, 0 when the rule has no entry
FixesOf(name) ==
    IF name \in DOMAIN stats.byTransformer THEN stats.byTransformer[name] ELSE 0

\* the fixes recorded for the rules of the span loop together
ProseFixes ==
    LET rules == OtherRules(options)
    IN  Sum([k \in DOMAIN rules |-> FixesOf(rules[k])])

\* the opening fences whose line the language-tag pass changed
ChangedOpeners ==
    LET before == FenceLines(markdown)
        after == FenceLines(Normalized)
    IN  {k \in OpeningFences(before) : k \in DOMAIN after /\ after[k] # before[k]}

\* C13: after a call the entry of normalize-code-block-language and its share
\* of totalFixes equal the number of opening fences that the language-tag pass
\* changed (an opening fence kept as it is and a closing fence count 0), and
\* the entry is absent when that number is 0.
C13_LanguageFixesCountChangedOpeners ==
    pc = "done" =>
        /\ FixesOf(LangRule) = Cardinality(ChangedOpeners)
        /\ stats.totalFixes = FixesOf(LangRule) + ProseFixes
        /\ ChangedOpeners = {} => LangRule \notin DOMAIN stats.byTransformer

(******************************** C14 *************************************)

\* position p lies in one of the regions
InRegion(regions, p) == \E b \in regions : b[1] <= p /\ p <= b[2]

\* the backquotes of a text without a closing delimiter before the end of the
\* text, given its protected regions: no region holds them, and no fenced block
\* begins after them
OpenTicks(s, regions) ==
    {u \in DOMAIN s :
        /\ s[u] = Tick
        /\ ~InRegion(regions, u)
        /\ \A b \in regions : b[1] > u => TickRun(s, b[1]) < 3}

\* the '<' before a digit that stand after such a backquote, outside the inline
\* spans that are closed
TriggersAfterOpenTick(s, regions) ==
    LET open == OpenTicks(s, regions)
    IN  {q \in DOMAIN s :
            /\ LessThanDigitPattern(s, q) > 0
            /\ ~InRegion(regions, q)
            /\ \E u \in open : u < q}

NextRunOf(s, j, n) ==
    Least({k \in j..Len(s) : (k = 1 \/ s[k - 1] # Tick) /\ TickRun(s, k) >= n}, 0)

\* the span that begins at position i, by its length (0: none): a fenced block
\* from a run of n >= 3 backquotes through the next run of n or more, shorter
\* runs in between being part of the block; or an inline span from a backquote
\* through the next backquote, no line break and one character or more between
SpanAt(s, i) ==
    LET n == TickRun(s, i)
        close == NextRunOf(s, i + n, n)
        run == NoTickNoBreakRun(s, i + 1)
    IN  IF n >= 3 THEN (IF close = 0 THEN 0 ELSE close + TickRun(s, close) - i)
        ELSE IF s[i] = Tick /\ run >= 1 /\ i + 1 + run <= Len(s) /\ s[i + 1 + run] = Tick
             THEN run + 2
        ELSE 0

\* the spans <<first, last>> of a text from position i on: the leftmost
\* one, then those of the text after it
RECURSIVE SpansFrom(_, _)
SpansFrom(s, i) ==
    LET at == Least({j \in i..Len(s) : SpanAt(s, j) > 0}, 0)
        end == at + SpanAt(s, at)
    IN  IF at = 0 THEN {} ELSE {<<at, end - 1>>} \cup SpansFrom(s, end)

\* the code parts of the segmenter, each by its first and last position
CodeSpans(ps) ==
    {<<PartStart(ps, k), PartStart(ps, k) + Len(ps[k].content) - 1>> :
        k \in {j \in DOMAIN ps : ps[j].type = "code"}}

\* C15: the protected spans of the segmenter are the fenced blocks, each from
\* its opening fence of three or more backquotes through the matching closing
\* fence, whatever the length of the fence and also with shorter runs of
\* backquotes inside, and the inline spans without a line break.
C15_SpansAreBlocksAndInlineSpans ==
    pc = "transform" /\ partIdx = 1 /\ ruleIdx = 1 =>
        CodeSpans(parts) = SpansFrom(result, 1)

(******************************** C16 *************************************)

\* the contents of a sequence of parts
Contents(ps) == [k \in DOMAIN ps |-> ps[k].content]

\* C16: the parts of the segmenter, joined in their order, are the text that
\* was segmented, so they are in order, do not overlap and hold every
\* character; and a call in which no rule is active returns its input and
\* records no fix.
C16_SegmentsReassembleToInput ==
    /\ pc = "transform" /\ options.preserveCodeBlocks =>
          join(Contents(parts)) = result
    /\ pc = "done" /\ ActiveRules(options) = <<>> =>
          /\ join(Contents(parts)) = markdown
          /\ result = markdown
          /\ stats = EmptyStats

\* a call with no active rule has returned a text that the segmenter cut into
\* several parts, a text part with a '<' before a digit among them
C16_Witness ==
    /\ pc = "done"
    /\ ActiveRules(options) = <<>>
    /\ options.preserveCodeBlocks
    /\ Len(parts) >= 2
    /\ \E k \in DOMAIN parts :
          /\ parts[k].type = "text"
          /\ \E i \in DOMAIN parts[k].content : LessThanDigitPattern(parts[k].content, i) > 0

(******************************** C17 *************************************)

\* the text after the language-tag pass of this call, the rule active or not
AfterLanguagePass ==
    IF HasCodeBlockLangRule(options) THEN Normalized ELSE markdown

\* less-than-digit is among the rules of the span loop
HasActiveLessThanDigit ==
    \E k \in DOMAIN OtherRules(options) : OtherRules(options)[k] = "less-than-digit"

\* C17: with preserveCodeBlocks = false the text after the language-tag pass is
\* one rewritable span: the output is that text with the active prose rules
\* applied to the whole of it in order, so with less-than-digit active no '<'
\* before a digit is left anywhere, fenced blocks and inline code included.
C17_UnprotectedRewritesWholeText ==
    pc = "done" /\ ~options.preserveCodeBlocks =>
        /\ parts = <<TextPart(AfterLanguagePass)>>
        /\ result = TransformFrom(OtherRules(options), 1, AfterLanguagePass).text
        /\ HasActiveLessThanDigit =>
              \A i \in DOMAIN result : LessThanDigitPattern(result, i) = 0

\* a call with preserveCodeBlocks = false has returned, and a '<' before a
\* digit inside a region that the segmenter would protect was rewritten
C17_Witness ==
    /\ pc = "done"
    /\ ~options.preserveCodeBlocks
    /\ LET ps == CodeParts(AfterLanguagePass)
           esc == Escapes(AfterLanguagePass, result)
       IN  \E k \in DOMAIN ps :
              /\ ps[k].type = "code"
              /\ \E i \in esc :
                    /\ PartStart(ps, k) <= i
                    /\ i < PartStart(ps, k) + Len(ps[k].content)

(******************************** C18 *************************************)

\* the rules of a list that a set of names holds, in the order of the list
Named(rules, names) == SelectSeq(rules, LAMBDA r : r \in names)

\* the rules of a list that a set of names does not hold
NotNamed(rules, names) == SelectSeq(rules, LAMBDA r : r \notin names)

\* the options of a call that gives a rule list and neither enable nor disable
WithRules(opts, rules) ==
    [opts EXCEPT !.rules = rules, !.hasEnable = FALSE, !.enable = {},
                 !.hasDisable = FALSE, !.disable = {}]

\* the call behaves as the call with the rule list 'active' and no enable or
\* disable list: the same text, the same count, and an entry in the statistics
\* for rules of 'active' only
BehavesAsWith(active) ==
    LET same == preprocessMDX(markdown, WithRules(options, active))
    IN  /\ result = same.text
        /\ stats.totalFixes = same.totalFixes
        /\ DOMAIN stats.byTransformer \subseteq {active[k] : k \in DOMAIN active}

\* C18 as stated: the active rules are those of the rule list that a supplied
\* enable list names, in rule-list order, less those that a supplied disable
\* list names; other names are ignored; a rule that is not active makes no
\* replacement and has no entry.
C18_SuppliedListsSelect ==
    pc = "done" =>
        LET enabled == IF options.hasEnable THEN Named(options.rules, options.enable)
                       ELSE options.rules
            active == IF options.hasDisable THEN NotNamed(enabled, options.disable)
                      ELSE enabled
        IN  BehavesAsWith(active)

\* C18 amended: an enable list selects only when it is not empty; an empty
\* enable list leaves every rule of the rule list active, as no list does.
C18_NonEmptyListsSelect ==
    pc = "done" =>
        LET enabled == IF options.hasEnable /\ options.enable # {}
                       THEN Named(options.rules, options.enable)
                       ELSE options.rules
            active == IF options.hasDisable THEN NotNamed(enabled, options.disable)
                      ELSE enabled
        IN  BehavesAsWith(active)

\* a call with an enable list that names two rules which match the same '<',
\* and a disable list that names one of them and a name that matches no rule,
\* has returned: the rule left made the replacement
C18_Witness ==
    /\ pc = "done"
    /\ options.rules = defaultPreprocessRules
    /\ options.hasEnable /\ options.enable = {"invalid-tag-opening", "less-than-digit"}
    /\ options.hasDisable /\ options.disable = {"less-than-digit", "no-such-rule"}
    /\ DOMAIN stats.byTransformer = {"invalid-tag-opening"}

(******************************** C19 *************************************)

\* the fixes recorded for every active rule together
FixesOfBothPasses == LanguageFixes + ProseFixes

\* C19: in a call with an onStats callback, the callback is not invoked while
\* the language-tag pass or the span rewrites are under way; when the call has
\* returned it has been invoked once if totalFixes > 0 and never if
\* totalFixes = 0, and the record it received holds the final counts: the
\* totalFixes of the call, the entries of both passes, and their sum.
C19_OnStatsOnceWithFinalCounts ==
    options.onStats =>
        /\ pc # "done" => onStatsCalls = <<>>
        /\ pc = "done" /\ stats.totalFixes = 0 => onStatsCalls = <<>>
        /\ pc = "done" /\ stats.totalFixes > 0 =>
              /\ onStatsCalls = <<stats>>
              /\ stats.totalFixes = preprocessMDX(markdown, options).totalFixes
              /\ stats.totalFixes = FixesOfBothPasses

\* a call with a callback has returned after both passes made replacements,
\* and the callback was invoked
C19_Witness ==
    /\ pc = "done"
    /\ options.onStats
    /\ LanguageFixes > 0
    /\ ProseFixes > 0
    /\ Len(onStatsCalls) = 1

(******************************** C20 *************************************)

\* the fixes the language-tag rule counts on the text of the call
LanguagePassFixes ==
    IF HasCodeBlockLangRule(options) THEN NormalizeCodeBlockLanguage(markdown).fixCount
    ELSE 0

\* C20: the call has two phases in this order. Before segmentation the
\* language-tag rule, if active, has been applied to the whole text, whatever
\* preserveCodeBlocks is, and no prose rule has been applied; segmentation
\* takes the tag-normalized text; the rule loop does not hold the language-tag
\* rule and leaves its count alone; a protected part is handed on as the
\* language-tag pass left it.
C20_TagPassThenSegmentation ==
    /\ pc = "start" => result = markdown /\ stats = EmptyStats
    /\ pc = "normalized" =>
          /\ result = AfterLanguagePass
          /\ parts = <<>>
          /\ ProseFixes = 0
    /\ pc \in {"normalized", "transform", "done"} =>
          /\ LanguageFixes = LanguagePassFixes
          /\ stats.totalFixes = LanguagePassFixes + ProseFixes
    /\ pc \in {"transform", "done"} =>
          /\ join(Contents(parts)) = AfterLanguagePass
          /\ \A k \in DOMAIN OtherRules(options) : OtherRules(options)[k] # LangRule
          /\ \A k \in DOMAIN pieces :
                parts[k].type = "code" => pieces[k] = parts[k].content

\* a call that protects code has returned a text that is one protected block
\* whose tag the language-tag pass rewrote
C20_Witness ==
    /\ pc = "done"
    /\ options.preserveCodeBlocks
    /\ Len(parts) = 1
    /\ parts[1].type = "code"
    /\ parts[1].content # markdown
    /\ result = parts[1].content
    /\ LanguageFixes = 1

(******************************** C21 *************************************)

\* the rules of a list whose replacement function does not throw
WithoutThrowing(rules) == SelectSeq(rules, LAMBDA r : ~Throws(r))

\* a replacement function of an active rule throws on some rewritable part
SomeRuleThrows == preprocessMDX(markdown, options).threw

\* C21: a call in which the replacement function of a custom rule throws does
\* not abort; it returns, and what it returns is the text and the count of the
\* call with the throwing rule left out of the rule list.
C21_ThrowingRuleIsSkipped ==
    /\ pc # "thrown"
    /\ pc = "done" =>
          LET skipped == preprocessMDX(markdown,
                             [options EXCEPT !.rules = WithoutThrowing(options.rules)])
          IN  /\ result = skipped.text
              /\ stats.totalFixes = skipped.totalFixes

\* the call is over by an exception of a replacement function, nothing returned
\* and onStats not invoked although an earlier rule had made a fix
C21_Thrown ==
    /\ pc = "thrown"
    /\ stats.totalFixes > 0
    /\ onStatsCalls = <<>>

(******************************** C22 *************************************)

\* the '<' and '>' characters of the text parts of a parts array
RECURSIVE TriggerCount(_)
TriggerCount(ps) ==
    IF ps = <<>> THEN 0
    ELSE (IF Head(ps).type = "text"
          THEN Cardinality({j \in DOMAIN Head(ps).content : Head(ps).content[j] \in {"<", ">"}})
          ELSE 0) + TriggerCount(Tail(ps))

\* the fixes of the rule loop: those of the call less those of the language-tag pass
LoopFixes == stats.totalFixes - LanguageFixes

\* C22: in a span the rules run in rule-list order, each on the whole text the
\* rule before it left; at every turn the text is the span with some of its
\* '<' and '>' standing as one entity each, so no character is replaced twice
\* and no entity is rewritten; the fixes of the rule loop are as many as the
\* characters so replaced and never more than the '<' and '>' of the
\* rewritable spans.
C22_RulesInOrderEachCharOnce ==
    /\ InTextPart =>
          /\ transformed =
                TransformFrom(SubSeq(OtherRules(options), 1, ruleIdx - 1), 1, Span).text
          /\ 0 \notin Escapes(Span, transformed)
    /\ pc = "done" =>
          /\ 0 \notin Escapes(join(Contents(parts)), result)
          /\ LoopFixes = Cardinality(Escapes(join(Contents(parts)), result))
          /\ LoopFixes <= TriggerCount(parts)

\* the default rules have run on three '<' in a row, each before a digit, and
\* each stands as one entity
C22_Witness ==
    /\ pc = "done"
    /\ options.rules = defaultPreprocessRules
    /\ markdown = <<"<", "5", "<", "5", "<", "5">>
    /\ result = EntityLt \o <<"5">> \o EntityLt \o <<"5">> \o EntityLt \o <<"5">>
    /\ stats.byTransformer["less-than-digit"] = 3
    /\ stats.totalFixes = 3

(******************************** C23 *************************************)

\* the call at hand as it is when made alone
Alone == preprocessMDX(markdown, options)

\* C23: every call, whatever calls were made before it, starts with stats at
\* totalFixes = 0 without entries and with every pattern's lastIndex at 0; it
\* ends as the call made alone on its arguments ends, with the same text and
\* the same count, and as every earlier call with the same arguments ended; the
\* rule list it was given is as it was given.
C23_CallsAreIndependent ==
    /\ pc = "start" =>
          /\ stats = EmptyStats
          /\ \A r \in AllRules : regexLastIndex[r] = 0
    /\ pc = "done" =>
          /\ ~Alone.threw
          /\ result = Alone.text
          /\ stats.totalFixes = Alone.totalFixes
    /\ pc = "thrown" => Alone.threw
    /\ pc \in {"done", "thrown"} =>
          \A k \in DOMAIN returned :
              returned[k].markdown = markdown /\ returned[k].options = options =>
                  /\ returned[k].threw = (pc = "thrown")
                  /\ pc = "done" =>
                        returned[k].text = result /\ returned[k].stats = stats
    /\ options.rules \in CallRuleLists

\* a call has returned with fixes after an earlier call on another text had
\* returned with fixes
C23_Witness ==
    /\ pc = "done"
    /\ Len(returned) = 1
    /\ ~returned[1].threw
    /\ returned[1].stats.totalFixes > 0
    /\ returned[1].markdown # markdown
    /\ stats.totalFixes > 0

(******************************** C24 *************************************)

\* the lang of the code node the parser makes of a fence line: the first word of
\* its tag, the empty text when there is none
NodeLang(line) ==
    LET tag == trim(line.lang)
    IN  SubSeq(tag, 1, Least({j \in DOMAIN tag : IsWhitespace(tag[j])}, Len(tag) + 1) - 1)

\* C24, for language tags: after the language-tag pass of the text variant
\* every opening fence carries the lang that the tree-based variant gives the
\* code node of that fence.
C24_SameLanguageUnderBothVariants ==
    pc = "normalized" =>
        LET before == FenceLines(markdown)
            after == FenceLines(result)
        IN  /\ Len(after) = Len(before)
            /\ \A k \in OpeningFences(before) :
                  NodeLang(after[k]) = codeBlockLanguageTransformer(NodeLang(before[k]))

(******************************** C25 *************************************)

\* by how many characters the tags of the opening fences became shorter
TagShrink(before, after) ==
    Sum([k \in DOMAIN before |->
            IF k \in OpeningFences(before) /\ Len(after[k].lang) < Len(before[k].lang)
            THEN Len(before[k].lang) - Len(after[k].lang) ELSE 0])

\* C25: the output differs from the input only by the tags of opening fence
\* lines, which the language-tag pass rewrote, and by single '<' and '>' of
\* rewritable spans that stand as '&lt;' and '&gt;': after the language-tag
\* pass the text outside the fence lines, the closing fence lines and the
\* indentation and fence of the opening ones are as in the input, and the text
\* is shorter by no more than the tags are; the text returned is that text
\* with some '<' and '>' replaced, none of them in a protected region, and is
\* not shorter.
C25_OnlyEscapesAndOpeningTags ==
    /\ pc = "normalized" =>
          LET before == FenceLines(markdown)
              after == FenceLines(result)
          IN  /\ FenceGaps(result) = FenceGaps(markdown)
              /\ Len(after) = Len(before)
              /\ \A k \in DOMAIN before :
                    IF k \in OpeningFences(before)
                    THEN /\ after[k].indent = before[k].indent
                         /\ after[k].fence = before[k].fence
                    ELSE after[k] = before[k]
              /\ Len(result) >= Len(markdown) - TagShrink(before, after)
    /\ pc = "done" =>
          LET regions == ProtectedRegions(Normalized)
              esc == Escapes(Normalized, result)
          IN  /\ 0 \notin esc
              /\ \A i \in esc : ~InRegion(regions, i)
              /\ Len(result) = Len(Normalized) + 3 * Cardinality(esc)

(******************************** C26 *************************************)

\* the sum of the counts of a byTransformer record
RECURSIVE SumOfCounts(_)
SumOfCounts(by) ==
    IF DOMAIN by = {} THEN 0
    ELSE LET n == CHOOSE m \in DOMAIN by : TRUE
         IN  by[n] + SumOfCounts([m \in DOMAIN by \ {n} |-> by[m]])

\* the replacements that the k-th rule of a list makes when the rules run on a
\* text in order
ReplacementsOf(rules, k, s) ==
    ReplaceAll(rules[k], TransformFrom(SubSeq(rules, 1, k - 1), 1, s).text).fixCount

\* the replacements that the rules of a name make on the text parts together
ReplacementsByName(name) ==
    LET rules == OtherRules(options)
    IN  Sum([p \in DOMAIN parts |->
            IF parts[p].type = "text"
            THEN Sum([k \in DOMAIN rules |->
                     IF RuleName(rules[k]) = name
                     THEN ReplacementsOf(rules, k, parts[p].content) ELSE 0])
            ELSE 0])

\* C26: when a call has returned, totalFixes is the sum of the counts of the
\* statistics record, every count is at least 1, and the count under the name
\* of a rule of the span loop is the number of replacements that the rules of
\* that name made on all the text parts together.
C26_TotalIsSumOfCounts ==
    pc = "done" =>
        /\ stats.totalFixes = SumOfCounts(stats.byTransformer)
        /\ \A n \in DOMAIN stats.byTransformer : stats.byTransformer[n] >= 1
        /\ \A k \in DOMAIN OtherRules(options) :
              LET name == RuleName(OtherRules(options)[k])
              IN  FixesOf(name) = ReplacementsByName(name)
        /\ DOMAIN stats.byTransformer \subseteq
              {RuleName(ActiveRules(options)[k]) : k \in DOMAIN ActiveRules(options)}

\* a call with two rules of one name has returned: each made a replacement, in
\* two text parts with a code span between them, and the name has the count 2
C26_Witness ==
    /\ pc = "done"
    /\ options.rules = <<"less-than-digit", RepeatRule>>
    /\ markdown = <<"<", "5", Tick, "<", "5", Tick, ">", "5">>
    /\ Len(parts) = 3
    /\ stats.byTransformer["less-than-digit"] = 2
    /\ stats.totalFixes = 2

(******************************** C27 *************************************)

\* the rule that the loop applies next to the text part at hand
RuleAtHand == OtherRules(options)[ruleIdx]

\* the places of a text where '</' stands before a digit
ClosingDigitTags(s) ==
    {j \in DOMAIN s : s[j] = "<" /\ j + 2 <= Len(s) /\ s[j + 1] = "/" /\ IsDigit(s[j + 2])}

\* C27: with the default rules in their order, when the turn of
\* numeric-only-tag comes its pattern matches nowhere, and when the turn of
\* invalid-tag-opening comes its pattern matches only where '</' stands before
\* a digit; numeric-only-tag has no entry in the statistics, and
\* invalid-tag-opening has no more fixes than the input has such places.
C27_TagRulesOnlySeeClosingForm ==
    options = DefaultOptions =>
        /\ InTextPart /\ ruleIdx <= Len(OtherRules(options)) =>
              /\ RuleAtHand = "numeric-only-tag" =>
                    \A j \in DOMAIN transformed : NumericOnlyTagPattern(transformed, j) = 0
              /\ RuleAtHand = "invalid-tag-opening" =>
                    \A j \in DOMAIN transformed :
                        InvalidTagOpeningPattern(transformed, j) > 0 =>
                            j \in ClosingDigitTags(transformed)
              /\ RuleAtHand \notin {LangRule, "less-than-digit"} =>
                    \A j \in DOMAIN transformed : LessThanDigitPattern(transformed, j) = 0
        /\ "numeric-only-tag" \notin DOMAIN stats.byTransformer
        /\ FixesOf("invalid-tag-opening") <= Cardinality(ClosingDigitTags(markdown))

\* the default rules have run on '<5>': the one fix is that of less-than-digit
C27_Witness ==
    /\ pc = "done"
    /\ options = DefaultOptions
    /\ markdown = <<"<", "5", ">">>
    /\ result = EntityLt \o <<"5", ">">>
    /\ DOMAIN stats.byTransformer = {"less-than-digit"}
    /\ stats.totalFixes = 1

(******************************** C28 *************************************)

\* the transformers of a list that do not throw
Completing(ts) == SelectSeq(ts, LAMBDA t : t # ThrowingTransformer)

\* the transformers of a list that throw
Failing(ts) == SelectSeq(ts, LAMBDA t : t = ThrowingTransformer)

\* the tree and the stats after the transformers of a list, from the k-th on,
\* have completed on a tree in order
RECURSIVE AfterTransformers(_, _, _, _)
AfterTransformers(ts, k, t, st) ==
    IF k > Len(ts) THEN [tree |-> t, stats |-> st]
    ELSE LET r == TransformTree(ts[k], t)
         IN  AfterTransformers(ts, k + 1, r.tree, SetFixes(st, ts[k], r.fixCount))

\* C28: at every turn of the plugin's loop the errors logged are the names of
\* the transformers that threw so far, and the tree and the stats are those
\* that the transformers which completed so far leave, applied in list order;
\* when the plugin has returned every active transformer has had its turn and
\* onStats was invoked once with these stats if totalFixes > 0, and not at all
\* otherwise.
C28_ThrowingTransformerIsSkipped ==
    pc \in {"plugin", "plugin-done"} =>
        LET done == SubSeq(ActiveTransformers(options), 1, transformerIdx - 1)
            after == AfterTransformers(Completing(done), 1, treeGiven, EmptyStats)
        IN  /\ consoleErrors = Failing(done)
            /\ tree = after.tree
            /\ stats = after.stats
            /\ pc = "plugin" => onStatsCalls = <<>>
            /\ pc = "plugin-done" =>
                  /\ done = ActiveTransformers(options)
                  /\ onStatsCalls = IF stats.totalFixes > 0 THEN <<stats>> ELSE <<>>

\* the plugin has returned after a transformer threw between two that made
\* fixes, and onStats was invoked with both fixes
C28_Witness ==
    /\ pc = "plugin-done"
    /\ consoleErrors = <<ThrowingTransformer>>
    /\ "less-than-digit" \in DOMAIN stats.byTransformer
    /\ stats.byTransformer["less-than-digit"] = 1
    /\ stats.byTransformer["code-block-language"] = 1
    /\ onStatsCalls = <<stats>>

(******************************** C29 *************************************)

\* C29: when no save is pending and the effects have run, isDirty is true
\* exactly when the value of the editor differs from the saved value.
C29_DirtyIffValueDiffersFromSaved ==
    pc = "editor" /\ pendingSaves = <<>> => (isDirty <=> internalValue # savedValue)

(******************************** C30 *************************************)

\* a step in which a save failed: the error was logged
SaveFailed == consoleErrors' # consoleErrors

\* a step in which onSave was called and its promise is awaited
SaveAwaited == Len(pendingSaves') > Len(pendingSaves)

\* a step in which the promise of a pending save resolved
SaveResolved == Len(pendingSaves') < Len(pendingSaves) /\ ~SaveFailed

C30_Step ==
    /\ pc' = "editor"
    /\ SaveFailed =>
          /\ consoleErrors' = Append(consoleErrors, "Failed to save editor contents")
          /\ savedValue' = savedValue
          /\ isDirty' = isDirty
          /\ internalValue' = internalValue
    /\ SaveAwaited =>
          /\ pendingSaves' = Append(pendingSaves, internalValue)
          /\ savedValue' = savedValue
          /\ isDirty' = isDirty
    /\ SaveResolved =>
          \E k \in DOMAIN pendingSaves :
             /\ pendingSaves' = WithoutSave(k)
             /\ savedValue' = pendingSaves[k]

\* C30: a save whose onSave throws or whose promise rejects logs the error and
\* leaves the saved value and the dirty flag as they were; while the promise of
\* onSave is awaited the saved value is not set, and when it resolves the saved
\* value becomes the value that was handed to onSave.
C30_FailedSaveKeepsBaseline == [][C30_Step]_vars

\* a save failed, after an edit that the editor still shows as not saved,
\* and no other save is pending
C30_Witness ==
    /\ pc = "editor"
    /\ consoleErrors = << "Failed to save editor contents" >>
    /\ pendingSaves = <<>>
    /\ isDirty
    /\ internalValue # savedValue

====
